---- MODULE Spec2Model ----
(***************************************************************************)
(* Weather ingestion pipeline of GoldCity: the scheduler (IngestionService) *)
(* that runs fetch-retry-persist-broadcast cycles, the upstream adapter     *)
(* (WeatherApiService) with its bounded retry, and the reading store        *)
(* (WeatherModel).                                                          *)
(*                                                                          *)
(* Node.js runs one callback of the event loop at a time, and after it all  *)
(* promise continuations that are ready.  One action of the model is one    *)
(* such turn: a call of start() or stop(), a cron task firing, an HTTP      *)
(* request, a timer or an insert settling, followed by the code of the      *)
(* cycle up to the next await of a request, a timer or an insert.           *)
(*                                                                          *)
(* Numbers: temperatures and raw humidities are kept in tenths of a unit    *)
(* (155 is 15.5), delays in milliseconds.                                   *)
(***************************************************************************)
EXTENDS Integers, Sequences, FiniteSets, TLC

(***************************************************************************)
(* Bounds of the model.                                                     *)
(***************************************************************************)
\* cycles (calls of ingestWeatherData) ever started in one run
MaxCycles == 2
\* largest value the wall clock reaches
MaxTime == 1
\* failures the environment injects while the scheduler is observed
\* (rejected HTTP requests and rejected inserts)
MaxFaults == 2

(***************************************************************************)
(* Program constants.                                                       *)
(***************************************************************************)
maxRetries == 3
retryDelay == 5000
DefaultHumidity == 500

\* keys of the cityCoordinates table of fetchFromOpenMeteo
cityCoordinates == {"London", "Dubai", "Tokyo", "New York", "Paris", "Sydney"}

(***************************************************************************)
(* Inputs: the configurations the process may be started with and what the  *)
(* upstream services may answer.                                            *)
(***************************************************************************)
\* the environments the scheduler is observed in: WEATHER_API_URL (which
\* backend isOpenWeatherMap selects), whether WEATHER_API_KEY is set, and
\* TRACKED_CITIES after split(',') and trim
Deployments ==
    { [apiUrl |-> "open-meteo", apiKey |-> FALSE, cities |-> <<"London", "Dubai">>],
      [apiUrl |-> "open-meteo", apiKey |-> FALSE, cities |-> <<"Atlantis", "Dubai">>],
      [apiUrl |-> "openweathermap.org", apiKey |-> TRUE, cities |-> <<"London", "Dubai">>],
      [apiUrl |-> "openweathermap.org", apiKey |-> FALSE, cities |-> <<"London", "Dubai">>] }

\* what the upstream services answer while the scheduler is observed: the
\* bodies of Open-Meteo, the bodies of OpenWeatherMap (name "" stands for
\* the name that was asked for) and the messages axios rejects with
Upstream ==
    [meteo |-> { [temperature |-> 155, relativehumidity_2m |-> <<650, 700>>] },
     owm |-> { [name |-> "", temp |-> 165, humidity |-> 655] },
     errors |-> { "timeout of 10000ms exceeded" }]

NoError == "null"
NoReading == [city_name |-> "null"]
NoReturn == [ok |-> FALSE, error |-> NoError]
NoResponse ==
    [status |-> 0, query |-> <<>>, queried |-> FALSE, period_hours |-> 0,
     analytics |-> <<>>]

\* initialState of the weather slice (error: null is NoError)
initialState ==
    [liveReadings |-> <<>>, analytics |-> <<>>, loading |-> FALSE,
     error |-> NoError, connected |-> FALSE]

\* an action: its type and its payload, one field for each type of payload
\* (the payload of addLiveReading is the last of dispatched.adds)
Action(type, flag, text, list) ==
    [type |-> type, flag |-> flag, text |-> text, list |-> list]

NothingDispatched ==
    [adds |-> <<>>, inflight |-> 0, last |-> Action("@@INIT", FALSE, "", <<>>)]

\* the cron task while the wall clock is not observed
Unobserved == [intervalMinutes |-> 0, minute |-> 0, fired |-> 0, gap |-> 0, firings |-> 0]

\* the browser before the Dashboard is mounted: socketService is constructed
\* with socket = null
NoDashboard ==
    [mounted |-> FALSE, socket |-> "null", handlers |-> {}, reachable |-> FALSE,
     published |-> 0]

VARIABLES
    config,     \* process.env as read by the constructors
    upstream,   \* what the weather services answer in this run
    cities,     \* IngestionService.cities
    io,         \* IngestionService.io is set
    cronJob,    \* IngestionService.cronJob: 0 is null, else the task it holds
    tasks,      \* node-cron tasks that are scheduled and not stopped
    cycle,      \* the calls of ingestWeatherData, in the order they began
    store,      \* rows of weather_readings, in insertion order
    emitted,    \* payloads of io.emit('weather:update', ...), in order
    now,        \* wall clock as read by new Date()
    faults,     \* failures the environment has injected so far
    origin,     \* history: for each row of store, the cycle and city entry
                \* whose fetch produced it
    proc,       \* the process: "running", "closing" once a signal handler has
                \* called db.destroy(), "exited" after process.exit
    sockets,    \* the Socket.IO clients that have connected, in order
    response,   \* what the analytics endpoint answered to its last request
    weather,    \* the dashboard's Redux state: state.weather of the store
    dispatched, \* history: the payloads addLiveReading was dispatched with
                \* since liveReadings was last cleared, the fetchAnalytics
                \* thunks in flight, and the last action dispatched
    trigger,    \* the cron task of start() against the wall clock, in minutes:
                \* IngestionService.intervalMinutes, the minutes since the
                \* top of the hour in which start() ran, and history: when the
                \* task last fired and how long after the firing before
    client      \* the browser: whether the Dashboard is mounted,
                \* SocketService.socket ("null" or the socket), the events
                \* the socket has a handler for, whether the server can be
                \* reached, and history: the 'weather:update' events the
                \* server has published since the Dashboard was mounted

vars == <<config, upstream, cities, io, cronJob, tasks, cycle, store, emitted, now, faults, origin,
          proc, sockets, response, weather, dispatched, trigger, client>>

Cycles == 1..Len(cycle)

(***************************************************************************)
(* WeatherApiService: the upstream adapter.                                 *)
(***************************************************************************)
isOpenWeatherMap == config.apiUrl = "openweathermap.org"

\* the value fetchFromOpenWeatherMap returns for a response body to query q
OpenWeatherMapData(q, body) ==
    [city |-> IF body.name = "" THEN q ELSE body.name,
     temperature |-> body.temp,
     humidity |-> body.humidity]

\* the value fetchFromOpenMeteo returns for a response body:
\* relativehumidity_2m[0] || 50 takes 50 when the element is missing or 0
OpenMeteoData(city, body) ==
    [city |-> city,
     temperature |-> body.temperature,
     humidity |-> IF body.relativehumidity_2m = <<>> \/ body.relativehumidity_2m[1] = 0
                  THEN DefaultHumidity
                  ELSE body.relativehumidity_2m[1]]

\* the response bodies the selected backend may answer a request with
BackendBodies == IF isOpenWeatherMap THEN upstream.owm ELSE upstream.meteo

\* the value the selected backend returns for a response body
BackendData(city, body) ==
    IF isOpenWeatherMap
    THEN OpenWeatherMapData(city, body)
    ELSE OpenMeteoData(city, body)

\* faulty variant: fetchFromOpenWeatherMap sends its request without looking
\* at the key
PreflightErrorKeyUnchecked(city) ==
    IF isOpenWeatherMap
    THEN NoError
    ELSE IF city \notin cityCoordinates
         THEN "City " \o city \o " not supported for Open-Meteo"
         ELSE NoError

\* the error a backend throws before it sends any request, NoError if none
PreflightError(city) ==
    IF isOpenWeatherMap
    THEN IF ~config.apiKey
         THEN "WEATHER_API_KEY is required for OpenWeatherMap"
         ELSE NoError
    ELSE IF city \notin cityCoordinates
         THEN "City " \o city \o " not supported for Open-Meteo"
         ELSE NoError

\* faulty variant: the loop bound is off by one
MoreAttemptsOffByOne(attempt) == attempt <= maxRetries

\* whether the catch block of fetchWeatherData goes on to another attempt
MoreAttempts(attempt) == attempt < maxRetries

\* faulty variant: the wait does not grow with the attempt
BackoffConstant(attempt) == retryDelay

\* the wait before the next attempt
Backoff(attempt) == retryDelay * attempt

\* faulty variant: only the first error is kept
RememberFirst(lastError, error) ==
    IF lastError = NoError THEN error ELSE lastError

\* the error a failed attempt leaves in lastError
Remember(lastError, error) == error

\* the error fetchWeatherData throws when its loop ends
FetchError(city, lastError) ==
    [city |-> city, attempts |-> maxRetries, message |-> lastError]

\* the catch block of fetchWeatherData: the attempt is logged and the call
\* sleeps, or this was the last attempt and the call throws after the loop
CatchAttempt(cy, error) ==
    LET last == Remember(cy.lastError, error)
        seen == [cy EXCEPT !.lastError = last,
                           !.tries = Append(@, [ok |-> FALSE, error |-> error])]
    IN  IF MoreAttempts(cy.attempt)
        THEN [seen EXCEPT !.pc = "sleep"]
        ELSE [seen EXCEPT !.pc = "settled",
                          !.ret = [ok |-> FALSE,
                                   error |-> FetchError(cities[cy.i], last)]]

\* faulty variant: the request is sent without a timeout to a server that
\* never answers
TryBackendNoTimeout(cy) ==
    LET e == PreflightError(cities[cy.i])
    IN  IF e # NoError
        THEN CatchAttempt(cy, e)
        ELSE [cy EXCEPT !.pc = "hung", !.sent = @ + 1]

\* the try block of fetchWeatherData: the backend throws at once or sends
\* its HTTP request
TryBackend(cy) ==
    LET e == PreflightError(cities[cy.i])
    IN  IF e # NoError
        THEN CatchAttempt(cy, e)
        ELSE [cy EXCEPT !.pc = "request", !.sent = @ + 1]

\* the HTTP request resolved with this body and fetchWeatherData returns
\* the backend's value (history: the attempt keeps the body it was given)
ReturnData(cy, body) ==
    LET data == BackendData(cities[cy.i], body)
    IN  [cy EXCEPT !.pc = "settled",
                   !.tries = Append(@, [ok |-> TRUE, data |-> data, body |-> body]),
                   !.ret = [ok |-> TRUE, data |-> data]]

\* the sleep of the catch block is over: the loop goes to its next attempt
NextAttempt(cy) ==
    [cy EXCEPT !.pc = "attempt",
               !.waits = Append(@, Backoff(cy.attempt)),
               !.attempt = @ + 1]

\* the state of a call of fetchWeatherData when it begins
FirstAttempt(cy, i) ==
    [cy EXCEPT !.pc = "attempt", !.i = i, !.attempt = 1, !.lastError = NoError,
               !.tries = <<>>, !.waits = <<>>, !.sent = 0, !.ret = NoReturn]

\* history: what a settled call of fetchWeatherData did
Call(cy) ==
    [i |-> cy.i, tries |-> cy.tries, waits |-> cy.waits, sent |-> cy.sent,
     ret |-> cy.ret]

\* faulty variant: a failed call leaves a placeholder in the results
PushAlways(results, ret) ==
    IF ret.ok
    THEN Append(results, ret.data)
    ELSE Append(results, [city |-> "", temperature |-> 0, humidity |-> DefaultHumidity])

\* faulty variant: the value of a call is pushed when the call returns and
\* again when the loop goes on
PushTwice(results, ret) ==
    IF ret.ok THEN results \o <<ret.data, ret.data>> ELSE results

\* faulty variant: results are collected newest first
PushFront(results, ret) ==
    IF ret.ok THEN <<ret.data>> \o results ELSE results

\* the results array of fetchMultipleCities after a call has settled
Push(results, ret) ==
    IF ret.ok THEN Append(results, ret.data) ELSE results

\* the errors array of fetchMultipleCities after a call has settled
PushError(errors, city, ret) ==
    IF ret.ok THEN errors ELSE Append(errors, [city |-> city, message |-> ret.error])

\* faulty variant: the loop of fetchMultipleCities has no catch, so the
\* error of a failed call leaves it and ends the cycle
CollectOrThrow(cy) ==
    LET kept == [cy EXCEPT !.results = Push(@, cy.ret),
                           !.calls = Append(@, Call(cy))]
    IN  IF ~cy.ret.ok
        THEN [kept EXCEPT !.pc = "done", !.outcome = "error"]
        ELSE IF cy.i < Len(cities)
             THEN FirstAttempt(kept, cy.i + 1)
             ELSE [kept EXCEPT !.pc = "fetched", !.attempt = 0, !.lastError = NoError,
                               !.tries = <<>>, !.waits = <<>>, !.sent = 0,
                               !.ret = NoReturn]

\* the body of the loop of fetchMultipleCities after fetchWeatherData has
\* settled: push the result or record the error, then go to the next city
\* or return
Collect(cy) ==
    LET kept == [cy EXCEPT !.results = Push(@, cy.ret),
                           !.errors = PushError(@, cities[cy.i], cy.ret),
                           !.calls = Append(@, Call(cy))]
    IN  IF cy.i < Len(cities)
        THEN FirstAttempt(kept, cy.i + 1)
        ELSE [kept EXCEPT !.pc = "fetched", !.attempt = 0, !.lastError = NoError,
                          !.tries = <<>>, !.waits = <<>>, !.sent = 0,
                          !.ret = NoReturn]

(***************************************************************************)
(* WeatherModel: the reading store.                                         *)
(***************************************************************************)
\* the id the store assigns to the next inserted row (auto-increment)
NextId == Len(store) + 1

\* the results ORDER BY recorded_at DESC LIMIT limit may give for the rows
\* with these positions in the store: the newest first, rows with the same
\* recorded_at in any order (the query names no second sort key)
RECURSIVE Recent(_, _)
Recent(rows, limit) ==
    IF limit = 0 \/ rows = {}
    THEN {<<>>}
    ELSE LET newest == {n \in rows : \A m \in rows :
                           store[m].recorded_at <= store[n].recorded_at}
         IN  UNION {{<<store[n]>> \o rest : rest \in Recent(rows \ {n}, limit - 1)} :
                      n \in newest}

\* what WeatherModel.getRecentReadings(limit) may resolve with
getRecentReadings(limit) == Recent(1..Len(store), limit)

(***************************************************************************)
\* Math.round of a value kept in tenths
Round(x) == (x + 5) \div 10

\* the reading the loop of ingestWeatherData builds from a fetched value
Reading(weatherData, date) ==
    [city_name |-> weatherData.city,
     temperature_c |-> weatherData.temperature,
     humidity_percent |-> Round(weatherData.humidity),
     recorded_at |-> date]

\* faulty variant: the loop numbers the payloads itself
PayloadCounted(reading, id) ==
    [id |-> Len(emitted) + 1,
     city_name |-> reading.city_name,
     temperature_c |-> reading.temperature_c,
     humidity_percent |-> reading.humidity_percent,
     recorded_at |-> reading.recorded_at]

\* the payload of the 'weather:update' event: {...reading, id}
Payload(reading, id) ==
    [id |-> id,
     city_name |-> reading.city_name,
     temperature_c |-> reading.temperature_c,
     humidity_percent |-> reading.humidity_percent,
     recorded_at |-> reading.recorded_at]

\* the row the store keeps for an inserted reading
Row(reading, id) ==
    [id |-> id,
     city_name |-> reading.city_name,
     temperature_c |-> reading.temperature_c,
     humidity_percent |-> reading.humidity_percent,
     recorded_at |-> reading.recorded_at]

\* the values new Date() may give: the clock has moved on or it has not
Dates == {t \in {now, now + 1} : t <= MaxTime}

\* the process has not exited: its callbacks still run
Alive == proc # "exited"

\* the connection pool of the store has not been destroyed
Connected == proc = "running"

\* the loop of ingestWeatherData arrives at reading k of weatherDataList:
\* it builds the reading and calls WeatherModel.create (which the pool
\* refuses once it has been destroyed), or the loop is over
Persist(cy, k, date) ==
    IF k <= Len(cy.results)
    THEN [cy EXCEPT !.pc = IF Connected THEN "insert" ELSE "refused", !.k = k,
                    !.reading = Reading(cy.results[k], date)]
    ELSE [cy EXCEPT !.pc = "done", !.k = k, !.reading = NoReading,
                    !.outcome = "completed"]

\* the code of a cycle from where it stands up to its next await of an HTTP
\* request, a timer or an insert (or to its end)
RECURSIVE Continue(_, _)
Continue(cy, date) ==
    CASE cy.pc = "attempt" -> Continue(TryBackend(cy), date)
      [] cy.pc = "settled" -> Continue(Collect(cy), date)
      [] cy.pc = "fetched" -> Persist(cy, 1, date)
      [] OTHER -> cy

\* a call of ingestWeatherData up to its first await: fetchMultipleCities
\* has begun the fetch of the first city
ingestWeatherData(date) ==
    Continue([pc |-> "attempt", i |-> 1, attempt |-> 1, lastError |-> NoError,
              tries |-> <<>>, waits |-> <<>>, sent |-> 0, ret |-> NoReturn,
              results |-> <<>>, errors |-> <<>>, calls |-> <<>>,
              k |-> 0, reading |-> NoReading, sink |-> io, failedAt |-> 0,
              outcome |-> "running"], date)

\* the clock after a turn that read it at date if it built a reading
Clock(cy, date) == IF cy.pc \in {"insert", "refused"} THEN date ELSE now

\* the HTTP request of an attempt resolves
RequestSucceeds(c) ==
    /\ Alive
    /\ c \in Cycles
    /\ cycle[c].pc = "request"
    /\ \E body \in BackendBodies, date \in Dates :
          LET cy == Continue(ReturnData(cycle[c], body), date)
          IN  /\ cycle' = [cycle EXCEPT ![c] = cy]
              /\ now' = Clock(cy, date)
    /\ UNCHANGED <<client, trigger, weather, dispatched, proc, sockets, response, config, upstream, cities, io, cronJob, tasks, store, emitted, faults, origin>>

\* the environment injects one more failure, within a budget
Fault(budget) ==
    /\ faults < budget
    /\ faults' = faults + 1

\* the HTTP request of an attempt rejects (timeout, 5xx, network error)
RequestFails(c, budget) ==
    /\ Alive
    /\ c \in Cycles
    /\ cycle[c].pc = "request"
    /\ Fault(budget)
    /\ \E e \in upstream.errors, date \in Dates :
          LET cy == Continue(CatchAttempt(cycle[c], e), date)
          IN  /\ cycle' = [cycle EXCEPT ![c] = cy]
              /\ now' = Clock(cy, date)
    /\ UNCHANGED <<client, trigger, weather, dispatched, proc, sockets, response, config, upstream, cities, io, cronJob, tasks, store, emitted, origin>>

\* the timer of the backoff sleep fires
SleepDone(c) ==
    /\ Alive
    /\ c \in Cycles
    /\ cycle[c].pc = "sleep"
    /\ \E date \in Dates :
          LET cy == Continue(NextAttempt(cycle[c]), date)
          IN  /\ cycle' = [cycle EXCEPT ![c] = cy]
              /\ now' = Clock(cy, date)
    /\ UNCHANGED <<client, trigger, weather, dispatched, proc, sockets, response, config, upstream, cities, io, cronJob, tasks, store, emitted, faults, origin>>

\* faulty variant: the readings of a cycle are published in one batch when its last
\* reading has been inserted
EmitBatched(cy, id) ==
    IF io /\ cy.k = Len(cy.results)
    THEN emitted \o [j \in 1..cy.k |-> Payload(Reading(cy.results[j], cy.reading.recorded_at), id - cy.k + j)]
    ELSE emitted

\* what the channel has carried after the loop has handled the row that was
\* inserted with this id: if (this.io) this.io.emit(...)
Emit(cy, id) ==
    IF io THEN Append(emitted, Payload(cy.reading, id)) ELSE emitted

\* faulty variant: a socket is sent the live events only once its handler
\* has sent it the stored readings
DeliverToCaughtUp(cy, id) ==
    IF io
    THEN [s \in DOMAIN sockets |->
            IF sockets[s].pc = "ready"
            THEN [sockets[s] EXCEPT !.received = Append(@, Payload(cy.reading, id))]
            ELSE sockets[s]]
    ELSE sockets

\* what the connected clients have received after that emit: io.emit sends
\* the event to every socket of the namespace, and a socket is one from the
\* moment it has connected
Deliver(cy, id) ==
    IF io
    THEN [s \in DOMAIN sockets |->
            [sockets[s] EXCEPT !.received = Append(@, Payload(cy.reading, id))]]
    ELSE sockets

\* WeatherModel.create resolves with the new id: the reading is emitted if
\* a sink is set and the loop goes on to the next reading
InsertSucceeds(c) ==
    /\ Alive
    /\ c \in Cycles
    /\ cycle[c].pc = "insert"
    /\ LET id == NextId
       IN  /\ store' = Append(store, Row(cycle[c].reading, id))
           /\ origin' = Append(origin, [cycle |-> c, k |-> cycle[c].k])
           /\ emitted' = Emit(cycle[c], id)
           /\ sockets' = Deliver(cycle[c], id)
           /\ \E date \in Dates :
                 LET cy == Persist(cycle[c], cycle[c].k + 1, date)
                 IN  /\ cycle' = [cycle EXCEPT ![c] = cy]
                     /\ now' = Clock(cy, date)
    /\ UNCHANGED <<client, trigger, weather, dispatched, proc, response, config, upstream, cities, io, cronJob, tasks, faults>>

\* faulty variant: the catch block logs the error and throws it again, so
\* the promise of ingestWeatherData rejects
CatchAndRethrow(cy) ==
    [cy EXCEPT !.pc = "done", !.failedAt = cy.k, !.outcome = "rejected"]

\* the catch block of ingestWeatherData after WeatherModel.create rejected
CatchInsert(cy) ==
    [cy EXCEPT !.pc = "done", !.failedAt = cy.k, !.outcome = "error"]

\* WeatherModel.create rejects: the error leaves the loop and is logged
InsertFails(c, budget) ==
    /\ Alive
    /\ c \in Cycles
    /\ cycle[c].pc = "insert"
    /\ Fault(budget)
    /\ cycle' = [cycle EXCEPT ![c] = CatchInsert(@)]
    /\ UNCHANGED <<client, trigger, weather, dispatched, proc, sockets, response, config, upstream, cities, io, cronJob, tasks, store, emitted, now, origin>>

(***************************************************************************)
(* IngestionService: the scheduler.                                         *)
(***************************************************************************)
\* whether a call of ingestWeatherData made now begins a cycle: the code
\* has no guard
MayRun == TRUE

\* a cycle begins
Begin ==
    \E date \in Dates :
       LET cy == ingestWeatherData(date)
       IN  /\ cycle' = Append(cycle, cy)
           /\ now' = Clock(cy, date)

setSocketIO ==
    /\ Alive
    /\ ~io
    /\ io' = TRUE
    /\ UNCHANGED <<client, trigger, weather, dispatched, proc, sockets, response, config, upstream, cities, cronJob, tasks, cycle, store, emitted, now, faults, origin>>

\* faulty variant: start() only arms the task and leaves the first cycle to
\* its first tick
startWithoutCycle ==
    /\ Alive
    /\ cronJob < MaxCycles
    /\ cronJob' = cronJob + 1
    /\ tasks' = tasks \cup {cronJob + 1}
    /\ UNCHANGED <<client, trigger, weather, dispatched, proc, sockets, response, config, upstream, cities, io, cycle, store, emitted, now, faults, origin>>

\* start(): one cycle at once, then a new cron task, kept in cronJob
start ==
    /\ Alive
    /\ Len(cycle) < MaxCycles
    /\ MayRun
    /\ Begin
    /\ cronJob' = cronJob + 1
    /\ tasks' = tasks \cup {cronJob + 1}
    /\ UNCHANGED <<client, trigger, weather, dispatched, proc, sockets, response, config, upstream, cities, io, store, emitted, faults, origin>>

\* a scheduled task fires and its callback calls ingestWeatherData
cronTick ==
    /\ Alive
    /\ tasks # {}
    /\ Len(cycle) < MaxCycles
    /\ MayRun
    /\ Begin
    /\ UNCHANGED <<client, trigger, weather, dispatched, proc, sockets, response, config, upstream, cities, io, cronJob, tasks, store, emitted, faults, origin>>

\* faulty variant: stop() calls this.cronJob.stop() without testing cronJob,
\* which throws a TypeError while cronJob is null
StopUnguarded(job, armed) ==
    [tasks |-> armed \ {job}, threw |-> job = 0]

\* the body of stop() for the task cronJob holds (0 is null) and the set of
\* armed tasks: the tasks armed afterwards and whether the call threw.
\* ScheduledTask.stop() of a task that is already stopped changes nothing
StopTask(job, armed) ==
    [tasks |-> IF job # 0 THEN armed \ {job} ELSE armed, threw |-> FALSE]

\* stop(): stops the task cronJob holds, if it holds one; cronJob keeps it
stop ==
    /\ Alive
    /\ ~StopTask(cronJob, tasks).threw
    /\ tasks' = StopTask(cronJob, tasks).tasks
    /\ UNCHANGED <<client, trigger, weather, dispatched, proc, sockets, response, config, upstream, cities, io, cronJob, cycle, store, emitted, now, faults, origin>>

Init ==
    /\ \E d \in Deployments :
          /\ config = [apiUrl |-> d.apiUrl, apiKey |-> d.apiKey]
          /\ cities = d.cities
    /\ upstream = Upstream
    /\ io = FALSE
    /\ cronJob = 0
    /\ tasks = {}
    /\ cycle = <<>>
    /\ store = <<>>
    /\ emitted = <<>>
    /\ now = 0
    /\ faults = 0
    /\ origin = <<>>
    /\ proc = "running"
    /\ sockets = <<>>
    /\ response = NoResponse
    /\ weather = initialState
    /\ dispatched = NothingDispatched
    /\ client = NoDashboard
    /\ trigger = Unobserved

Next ==
    \/ setSocketIO
    \/ start
    \/ cronTick
    \/ stop
    \/ \E c \in Cycles : RequestSucceeds(c)
    \/ \E c \in Cycles : RequestFails(c, MaxFaults)
    \/ \E c \in Cycles : SleepDone(c)
    \/ \E c \in Cycles : InsertSucceeds(c)
    \/ \E c \in Cycles : InsertFails(c, MaxFaults)

Spec == Init /\ [][Next]_vars

(***************************************************************************)
(* The adapter alone: one call of fetchMultipleCities, made by the first    *)
(* cycle of a service that was just started, against upstream services      *)
(* that answer with any of a wider choice of bodies and errors.  The run    *)
(* ends when fetchMultipleCities has returned and the cycle stands at its   *)
(* first insert (or at its end, when nothing was fetched).                  *)
(***************************************************************************)
FetchDeployments ==
    { [apiUrl |-> "open-meteo", apiKey |-> FALSE, cities |-> <<"London", "Dubai", "Tokyo">>],
      [apiUrl |-> "open-meteo", apiKey |-> FALSE, cities |-> <<"London", "Atlantis", "Dubai">>],
      [apiUrl |-> "open-meteo", apiKey |-> FALSE, cities |-> <<"Paris">>],
      [apiUrl |-> "openweathermap.org", apiKey |-> TRUE, cities |-> <<"London", "Dubai">>],
      [apiUrl |-> "openweathermap.org", apiKey |-> FALSE, cities |-> <<"London", "Dubai">>] }

FetchUpstream ==
    [meteo |-> { [temperature |-> 155, relativehumidity_2m |-> <<650, 700>>],
                 [temperature |-> 180, relativehumidity_2m |-> <<0, 700>>],
                 [temperature |-> 200, relativehumidity_2m |-> <<>>] },
     owm |-> { [name |-> "", temp |-> 165, humidity |-> 655],
               [name |-> "City of London", temp |-> 165, humidity |-> 700] },
     errors |-> { "timeout of 10000ms exceeded",
                  "Request failed with status code 500" }]

InitFetch ==
    /\ \E d \in FetchDeployments :
          /\ config = [apiUrl |-> d.apiUrl, apiKey |-> d.apiKey]
          /\ cities = d.cities
    /\ upstream = FetchUpstream
    /\ io = FALSE
    /\ cronJob = 1
    /\ tasks = {1}
    /\ now = 0
    /\ cycle = <<ingestWeatherData(0)>>
    /\ store = <<>>
    /\ emitted = <<>>
    /\ faults = 0
    /\ origin = <<>>
    /\ proc = "running"
    /\ sockets = <<>>
    /\ response = NoResponse
    /\ weather = initialState
    /\ dispatched = NothingDispatched
    /\ client = NoDashboard
    /\ trigger = Unobserved

\* the most rejections one call of fetchMultipleCities can meet
FetchFaults == maxRetries * Len(cities)

NextFetch ==
    \/ \E c \in Cycles : RequestSucceeds(c)
    \/ \E c \in Cycles : RequestFails(c, FetchFaults)
    \/ \E c \in Cycles : SleepDone(c)

SpecFetch == InitFetch /\ [][NextFetch]_vars

(***************************************************************************)
(* One whole cycle: the first cycle of a started service, with or without   *)
(* a sink, fetches from an upstream service that may answer with any body   *)
(* (a humidity of 0, an empty series, a humidity above 100, a name other    *)
(* than the one asked for) or fail, then inserts and emits.                 *)
(***************************************************************************)
ReadingDeployments ==
    { [apiUrl |-> "open-meteo", apiKey |-> FALSE, cities |-> <<"London", "Dubai">>],
      [apiUrl |-> "openweathermap.org", apiKey |-> TRUE, cities |-> <<"London", "Dubai">>] }

ReadingUpstream ==
    [meteo |-> { [temperature |-> 155, relativehumidity_2m |-> <<650, 700>>],
                 [temperature |-> 180, relativehumidity_2m |-> <<0, 700>>],
                 [temperature |-> 200, relativehumidity_2m |-> <<>>],
                 [temperature |-> 210, relativehumidity_2m |-> <<1040, 700>>] },
     owm |-> { [name |-> "", temp |-> 165, humidity |-> 655],
               [name |-> "City of London", temp |-> 165, humidity |-> 700],
               [name |-> "", temp |-> 170, humidity |-> 1200] },
     errors |-> { "timeout of 10000ms exceeded" }]

InitReadings ==
    /\ \E d \in ReadingDeployments :
          /\ config = [apiUrl |-> d.apiUrl, apiKey |-> d.apiKey]
          /\ cities = d.cities
    /\ upstream = ReadingUpstream
    /\ io \in BOOLEAN
    /\ cronJob = 1
    /\ tasks = {1}
    /\ now = 0
    /\ cycle = <<ingestWeatherData(0)>>
    /\ store = <<>>
    /\ emitted = <<>>
    /\ faults = 0
    /\ origin = <<>>
    /\ proc = "running"
    /\ sockets = <<>>
    /\ response = NoResponse
    /\ weather = initialState
    /\ dispatched = NothingDispatched
    /\ client = NoDashboard
    /\ trigger = Unobserved

NextReadings ==
    \/ \E c \in Cycles : RequestSucceeds(c)
    \/ \E c \in Cycles : RequestFails(c, FetchFaults)
    \/ \E c \in Cycles : SleepDone(c)
    \/ \E c \in Cycles : InsertSucceeds(c)
    \/ \E c \in Cycles : InsertFails(c, FetchFaults)

SpecReadings == InitReadings /\ [][NextReadings]_vars

(***************************************************************************)
(* The adapter from its construction: a service configured for              *)
(* OpenWeatherMap, with or without WEATHER_API_KEY, is constructed and      *)
(* started, and its cycles fetch.                                           *)
(***************************************************************************)
InitCredential ==
    /\ Init
    /\ isOpenWeatherMap

NextCredential ==
    \/ start
    \/ \E c \in Cycles : RequestSucceeds(c)
    \/ \E c \in Cycles : RequestFails(c, MaxFaults)
    \/ \E c \in Cycles : SleepDone(c)

SpecCredential == InitCredential /\ [][NextCredential]_vars

(***************************************************************************)
(* The scheduler alone: start(), stop() and the armed tasks, over cycles    *)
(* whose requests all succeed and whose inserts may be rejected.            *)
(***************************************************************************)
InitSchedule ==
    /\ Init
    /\ ~isOpenWeatherMap
    /\ \A i \in 1..Len(cities) : cities[i] \in cityCoordinates

NextSchedule ==
    \/ start
    \/ stop
    \/ cronTick
    \/ \E c \in Cycles : RequestSucceeds(c)
    \/ \E c \in Cycles : InsertSucceeds(c)
    \/ \E c \in Cycles : InsertFails(c, MaxFaults)

SpecSchedule == InitSchedule /\ [][NextSchedule]_vars

(***************************************************************************)
(* Progress: the cycles of a started service under requests, timers and     *)
(* inserts that all settle.  axios settles every request within its timeout *)
(* of 10 seconds, a timer fires when its delay is over, and the store       *)
(* answers every insert: each of these is a step that is taken once it is   *)
(* due.                                                                     *)
(***************************************************************************)
\* the HTTP request of cycle c settles
RequestSettles(c) == RequestSucceeds(c) \/ RequestFails(c, maxRetries)

\* the insert of cycle c settles
InsertSettles(c) == InsertSucceeds(c) \/ InsertFails(c, MaxFaults)

NextSettle ==
    \/ start
    \/ cronTick
    \/ \E c \in Cycles : RequestSucceeds(c)
    \/ \E c \in Cycles : RequestFails(c, maxRetries)
    \/ \E c \in Cycles : SleepDone(c)
    \/ \E c \in Cycles : InsertSucceeds(c)
    \/ \E c \in Cycles : InsertFails(c, MaxFaults)

Settling ==
    \A c \in 1..MaxCycles :
       /\ WF_vars(RequestSettles(c))
       /\ WF_vars(SleepDone(c))
       /\ WF_vars(InsertSettles(c))

SpecSettle == Init /\ [][NextSettle]_vars /\ Settling

(***************************************************************************)
(* The catch of the cycle: everything after the two lines of logging is     *)
(* inside one try block, so an error of an insert or of an emit ends the    *)
(* loop in the catch block, and the errors of the fetch phase are caught    *)
(* for each city by fetchMultipleCities.  Requests and inserts may be       *)
(* rejected and this.io.emit may throw.                                     *)
(***************************************************************************)
\* WeatherModel.create resolves and this.io.emit throws: the row is stored,
\* nothing is published, and the error leaves the loop and is logged
EmitFails(c, budget) ==
    /\ Alive
    /\ c \in Cycles
    /\ cycle[c].pc = "insert"
    /\ io
    /\ Fault(budget)
    /\ store' = Append(store, Row(cycle[c].reading, NextId))
    /\ origin' = Append(origin, [cycle |-> c, k |-> cycle[c].k])
    /\ cycle' = [cycle EXCEPT ![c] = CatchInsert(@)]
    /\ UNCHANGED <<client, trigger, weather, dispatched, proc, sockets, response, config, upstream, cities, io, cronJob, tasks, emitted, now>>

NextCatch ==
    \/ setSocketIO
    \/ start
    \/ cronTick
    \/ \E c \in Cycles : RequestSucceeds(c)
    \/ \E c \in Cycles : RequestFails(c, maxRetries)
    \/ \E c \in Cycles : SleepDone(c)
    \/ \E c \in Cycles : InsertSucceeds(c)
    \/ \E c \in Cycles : InsertFails(c, MaxFaults)
    \/ \E c \in Cycles : EmitFails(c, MaxFaults)

SpecCatch == Init /\ [][NextCatch]_vars

(***************************************************************************)
(* The store apart from the process: the inserts of cycles that overlap     *)
(* travel over different connections of the pool (min 2, max 10).  The      *)
(* store executes an insert, which gives the row its id, and the promise of *)
(* WeatherModel.create resolves in a later turn of the event loop, in       *)
(* whatever order the answers arrive.  A service with a sink has been       *)
(* started, and the cron task may fire while the first cycle is running.    *)
(***************************************************************************)
\* the store executes the insert of cycle c: the row gets the next id
InsertExecutes(c) ==
    /\ Alive
    /\ c \in Cycles
    /\ cycle[c].pc = "insert"
    /\ store' = Append(store, Row(cycle[c].reading, NextId))
    /\ origin' = Append(origin, [cycle |-> c, k |-> cycle[c].k])
    /\ cycle' = [cycle EXCEPT ![c].pc = "inserted"]
    /\ UNCHANGED <<client, trigger, weather, dispatched, proc, sockets, response, config, upstream, cities, io, cronJob, tasks, emitted, now, faults>>

\* the answer of the store arrives and WeatherModel.create resolves with
\* the id of the row: the reading is emitted if a sink is set and the loop
\* goes on to the next reading
InsertResolves(c) ==
    /\ Alive
    /\ c \in Cycles
    /\ cycle[c].pc = "inserted"
    /\ LET n == CHOOSE n \in 1..Len(store) :
                   origin[n] = [cycle |-> c, k |-> cycle[c].k]
           id == store[n].id
       IN  /\ emitted' = Emit(cycle[c], id)
           /\ sockets' = Deliver(cycle[c], id)
           /\ \E date \in Dates :
                 LET cy == Persist(cycle[c], cycle[c].k + 1, date)
                 IN  /\ cycle' = [cycle EXCEPT ![c] = cy]
                     /\ now' = Clock(cy, date)
    /\ UNCHANGED <<client, trigger, weather, dispatched, proc, response, config, upstream, cities, io, cronJob, tasks, store, faults, origin>>

InitPool ==
    /\ config = [apiUrl |-> "open-meteo", apiKey |-> FALSE]
    /\ cities = <<"London", "Dubai">>
    /\ upstream = Upstream
    /\ io = TRUE
    /\ cronJob = 1
    /\ tasks = {1}
    /\ now = 0
    /\ cycle = <<ingestWeatherData(0)>>
    /\ store = <<>>
    /\ emitted = <<>>
    /\ faults = 0
    /\ origin = <<>>
    /\ proc = "running"
    /\ sockets = <<>>
    /\ response = NoResponse
    /\ weather = initialState
    /\ dispatched = NothingDispatched
    /\ client = NoDashboard
    /\ trigger = Unobserved

NextPool ==
    \/ cronTick
    \/ \E c \in Cycles : RequestSucceeds(c)
    \/ \E c \in Cycles : InsertExecutes(c)
    \/ \E c \in Cycles : InsertResolves(c)

SpecPool == InitPool /\ [][NextPool]_vars

(***************************************************************************)
(* Shutdown: the server is listening, start() has begun the first cycle,    *)
(* and SIGINT or SIGTERM may arrive at any moment.  The handler calls       *)
(* stop() and db.destroy() in the turn of the signal and process.exit(0)    *)
(* in the turn in which the pool has been destroyed.                        *)
(***************************************************************************)
\* the signal handler up to its await: stop(), the servers are closed (their
\* callbacks only log) and db.destroy() is called
shutdown ==
    /\ proc = "running"
    /\ tasks' = StopTask(cronJob, tasks).tasks
    /\ proc' = "closing"
    /\ UNCHANGED <<client, trigger, weather, dispatched, sockets, response, config, upstream, cities, io, cronJob, cycle, store, emitted, now, faults, origin>>

\* WeatherModel.create, called after db.destroy(), rejects: the error
\* leaves the loop and is logged
InsertRefused(c) ==
    /\ Alive
    /\ c \in Cycles
    /\ cycle[c].pc = "refused"
    /\ cycle' = [cycle EXCEPT ![c] = CatchInsert(@)]
    /\ UNCHANGED <<client, trigger, weather, dispatched, proc, sockets, response, config, upstream, cities, io, cronJob, tasks, store, emitted, now, faults, origin>>

\* db.destroy() resolves, once no query is using a connection of the pool,
\* and the handler calls process.exit(0)
exit ==
    /\ proc = "closing"
    /\ \A c \in Cycles : cycle[c].pc # "insert"
    /\ proc' = "exited"
    /\ UNCHANGED <<client, trigger, weather, dispatched, sockets, response, config, upstream, cities, io, cronJob, tasks, cycle, store, emitted, now, faults, origin>>

InitShutdown ==
    /\ \E d \in Deployments :
          /\ config = [apiUrl |-> d.apiUrl, apiKey |-> d.apiKey]
          /\ cities = d.cities
    /\ upstream = Upstream
    /\ proc = "running"
    /\ io = TRUE
    /\ cronJob = 1
    /\ tasks = {1}
    /\ now = 0
    /\ cycle = <<ingestWeatherData(0)>>
    /\ store = <<>>
    /\ emitted = <<>>
    /\ faults = 0
    /\ origin = <<>>
    /\ sockets = <<>>
    /\ response = NoResponse
    /\ weather = initialState
    /\ dispatched = NothingDispatched
    /\ client = NoDashboard
    /\ trigger = Unobserved

NextShutdown ==
    \/ shutdown
    \/ exit
    \/ cronTick
    \/ \E c \in Cycles : RequestSucceeds(c)
    \/ \E c \in Cycles : RequestFails(c, MaxFaults)
    \/ \E c \in Cycles : SleepDone(c)
    \/ \E c \in Cycles : InsertSucceeds(c)
    \/ \E c \in Cycles : InsertRefused(c)

SpecShutdown == InitShutdown /\ [][NextShutdown]_vars

(***************************************************************************)
(* The channel: Socket.IO clients connect to a server whose store holds the *)
(* readings of earlier cycles, while the cycle start() has begun inserts    *)
(* and emits.  The handler of 'connection' awaits getRecentReadings(10):    *)
(* the store runs the query in one turn and the handler resumes in a later  *)
(* one.                                                                     *)
(***************************************************************************)
\* clients that connect in one run
MaxSockets == 2

\* the limit the handler of 'connection' passes to getRecentReadings
CatchUpLimit == 10

\* Array.prototype.reverse
Reverse(seq) == [j \in 1..Len(seq) |-> seq[Len(seq) + 1 - j]]

Sockets == 1..Len(sockets)

\* a client connects: the socket joins the namespace and the handler calls
\* WeatherModel.getRecentReadings(10).  History: stored is the number of rows
\* at that moment
connection ==
    /\ Connected
    /\ Len(sockets) < MaxSockets
    /\ sockets' = Append(sockets, [pc |-> "query", batch |-> <<>>, received |-> <<>>,
                                   stored |-> Len(store), read |-> 0, early |-> 0])
    /\ UNCHANGED <<client, trigger, weather, dispatched, proc, response, config, upstream, cities, io, cronJob, tasks, cycle, store, emitted, now, faults, origin>>

\* the store runs the query of a handler.  History: read is the number of
\* rows at that moment
SelectRuns(s) ==
    /\ Alive
    /\ s \in Sockets
    /\ sockets[s].pc = "query"
    /\ \E recentReadings \in getRecentReadings(CatchUpLimit) :
          sockets' = [sockets EXCEPT ![s] = [@ EXCEPT !.pc = "read",
                                                      !.batch = recentReadings,
                                                      !.read = Len(store)]]
    /\ UNCHANGED <<client, trigger, weather, dispatched, proc, response, config, upstream, cities, io, cronJob, tasks, cycle, store, emitted, now, faults, origin>>

\* what a client has received when the handler has sent it the readings:
\* recentReadings.reverse().forEach(reading => socket.emit(...))
SendInitial(received, recentReadings) == received \o Reverse(recentReadings)

\* the handler resumes with the result of the query and sends it to its
\* socket.  History: early is the number of events the socket had received
\* before
connectionResumes(s) ==
    /\ Alive
    /\ s \in Sockets
    /\ sockets[s].pc = "read"
    /\ sockets' = [sockets EXCEPT ![s] =
                      [@ EXCEPT !.pc = "ready",
                                !.early = Len(sockets[s].received),
                                !.received = SendInitial(@, sockets[s].batch)]]
    /\ UNCHANGED <<client, trigger, weather, dispatched, proc, response, config, upstream, cities, io, cronJob, tasks, cycle, store, emitted, now, faults, origin>>

\* the values of recorded_at of the rows earlier cycles have stored, oldest
\* row first: the column keeps whole seconds, so the rows of one cycle often
\* share one
Histories ==
    { <<>>,
      <<-1, -1>>,
      <<-11, -10, -9, -8, -7, -6, -5, -4, -3, -2, -1>>,
      <<-10, -10, -9, -8, -7, -6, -5, -4, -3, -2, -1>>,
      <<-10, -9, -8, -7, -6, -5, -4, -3, -2, -2, -1, -1>> }

\* the n-th row of a store that earlier cycles have filled
StoredRow(n, date) ==
    Row(Reading([city |-> cities[((n - 1) % Len(cities)) + 1],
                 temperature |-> 155, humidity |-> 650], date), n)

InitChannel ==
    /\ config = [apiUrl |-> "open-meteo", apiKey |-> FALSE]
    /\ cities = <<"London", "Dubai">>
    /\ upstream = Upstream
    /\ proc = "running"
    /\ io = TRUE
    /\ cronJob = 1
    /\ tasks = {1}
    /\ now = 0
    /\ cycle = <<ingestWeatherData(0)>>
    /\ \E h \in Histories :
          /\ store = [n \in 1..Len(h) |-> StoredRow(n, h[n])]
          /\ origin = [n \in 1..Len(h) |-> [cycle |-> 0, k |-> n]]
    /\ emitted = <<>>
    /\ faults = 0
    /\ sockets = <<>>
    /\ response = NoResponse
    /\ weather = initialState
    /\ dispatched = NothingDispatched
    /\ client = NoDashboard
    /\ trigger = Unobserved

NextChannel ==
    \/ connection
    \/ \E s \in Sockets : SelectRuns(s)
    \/ \E s \in Sockets : connectionResumes(s)
    \/ \E c \in Cycles : RequestSucceeds(c)
    \/ \E c \in Cycles : InsertSucceeds(c)

SpecChannel == InitChannel /\ [][NextChannel]_vars

(***************************************************************************)
(* The catch-up of a client when the store refuses the query: the handler   *)
(* awaits getRecentReadings inside a try block, logs the error in the catch *)
(* block and goes on to register the handlers of the socket.                *)
(***************************************************************************)
\* the catch block of the connection handler: the error is logged and the
\* socket has been sent nothing by the handler
CatchSelect(sk) == [sk EXCEPT !.pc = "caught"]

\* WeatherModel.getRecentReadings rejects
SelectFails(s, budget) ==
    /\ Alive
    /\ s \in Sockets
    /\ sockets[s].pc = "query"
    /\ Fault(budget)
    /\ sockets' = [sockets EXCEPT ![s] = CatchSelect(@)]
    /\ UNCHANGED <<client, trigger, weather, dispatched, proc, response, config, upstream, cities, io, cronJob, tasks, cycle, store, emitted, now, origin>>

NextCatchUp ==
    \/ connection
    \/ \E s \in Sockets : SelectRuns(s)
    \/ \E s \in Sockets : SelectFails(s, MaxFaults)
    \/ \E s \in Sockets : connectionResumes(s)
    \/ \E c \in Cycles : RequestSucceeds(c)
    \/ \E c \in Cycles : InsertSucceeds(c)

SpecCatchUp == InitChannel /\ [][NextCatchUp]_vars

(***************************************************************************)
(* Analytics: GET /analytics?hours=... is answered from a store that        *)
(* earlier cycles have filled.  In this part the clock and recorded_at are  *)
(* in milliseconds.                                                         *)
(***************************************************************************)
\* the query parameter is absent: req.query.hours is undefined
Absent == <<"undefined">>

Digits == <<"0", "1", "2", "3", "4", "5", "6", "7", "8", "9">>

IsDigit(ch) == \E d \in 1..10 : Digits[d] = ch

DigitValue(ch) == (CHOOSE d \in 1..10 : Digits[d] = ch) - 1

\* the value of the longest prefix of digits of a string, and whether there
\* is one
RECURSIVE ParseDigits(_, _, _)
ParseDigits(str, value, any) ==
    IF str # <<>> /\ IsDigit(Head(str))
    THEN ParseDigits(Tail(str), 10 * value + DigitValue(Head(str)), TRUE)
    ELSE [nan |-> ~any, value |-> value]

RECURSIVE TrimStart(_)
TrimStart(str) ==
    IF str # <<>> /\ Head(str) = " " THEN TrimStart(Tail(str)) ELSE str

\* parseInt of a string of decimal characters: leading blanks are skipped, a
\* sign is read, then digits up to the first other character; NaN without
\* a digit
parseInt(string) ==
    LET str == TrimStart(string)
    IN  IF str # <<>> /\ Head(str) = "-"
        THEN LET p == ParseDigits(Tail(str), 0, FALSE)
             IN  [nan |-> p.nan, value |-> 0 - p.value]
        ELSE IF str # <<>> /\ Head(str) = "+"
             THEN ParseDigits(Tail(str), 0, FALSE)
             ELSE ParseDigits(str, 0, FALSE)

DefaultHours == 24
MinHours == 1
MaxHours == 168

\* parseInt(...) || 24: NaN and 0 are falsy
HoursBack(parsed) ==
    IF parsed.nan \/ parsed.value = 0 THEN DefaultHours ELSE parsed.value

\* the test that makes the controller answer 400
OutOfRange(hoursBack) == hoursBack < MinHours \/ hoursBack > MaxHours

\* milliseconds in an hour: 60 * 60 * 1000
HourMs == 60 * 60 * 1000

\* the city names of the model in the order ORDER BY city_name gives them
CityOrder ==
    <<"Atlantis", "City of London", "Dubai", "London", "New York", "Paris",
      "Sydney", "Tokyo">>

\* faulty variant: the cutoff itself is left out of the window
InWindowExclusive(recorded_at, cutoffTime) == recorded_at > cutoffTime

\* where('recorded_at', '>=', cutoffTime)
InWindow(recorded_at, cutoffTime) == recorded_at >= cutoffTime

\* the positions of the rows of a city that the where clause keeps
Group(city, cutoffTime) ==
    {n \in 1..Len(store) : /\ store[n].city_name = city
                           /\ InWindow(store[n].recorded_at, cutoffTime)}

RECURSIVE SumOf(_, _)
SumOf(rows, field) ==
    IF rows = {}
    THEN 0
    ELSE LET n == CHOOSE n \in rows : TRUE
         IN  store[n][field] + SumOf(rows \ {n}, field)

\* faulty variant: the mean is rounded to a whole percent
AvgRounded(rows, field) ==
    [num |-> (2 * SumOf(rows, field) + Cardinality(rows)) \div (2 * Cardinality(rows)),
     den |-> 1]

\* AVG(field) over rows: the quotient of the sum and the count, kept as a
\* fraction
Avg(rows, field) == [num |-> SumOf(rows, field), den |-> Cardinality(rows)]

\* the row of the result for one group.  History: over is the set of the
\* positions of the rows it was computed from
Aggregate(city, rows) ==
    [city_name |-> city,
     over |-> rows,
     min_temperature |-> CHOOSE t \in {store[n].temperature_c : n \in rows} :
                            \A n \in rows : t <= store[n].temperature_c,
     max_temperature |-> CHOOSE t \in {store[n].temperature_c : n \in rows} :
                            \A n \in rows : t >= store[n].temperature_c,
     avg_humidity |-> Avg(rows, "humidity_percent")]

\* the cities of a list that have a group, with their aggregates, in the
\* order of the list
RECURSIVE Aggregates(_, _)
Aggregates(names, cutoffTime) ==
    IF names = <<>>
    THEN <<>>
    ELSE LET rows == Group(Head(names), cutoffTime)
             rest == Aggregates(Tail(names), cutoffTime)
         IN  IF rows = {} THEN rest ELSE <<Aggregate(Head(names), rows)>> \o rest

\* WeatherModel.getAnalytics(hoursBack) at the time now
WeatherModel_getAnalytics(hoursBack) ==
    LET cutoffTime == now - hoursBack * HourMs
    IN  Aggregates(CityOrder, cutoffTime)

\* WeatherController.getAnalytics for a request whose parameter hours is the
\* string q, when the query of the store, if one is made, resolves.
\* History: query is q, queried tells whether WeatherModel.getAnalytics
\* was called
WeatherController_getAnalytics(q) ==
    LET hoursBack == HoursBack(parseInt(q))
    IN  /\ Alive
        /\ response' =
              IF OutOfRange(hoursBack)
              THEN [status |-> 400, query |-> q, queried |-> FALSE,
                    period_hours |-> 0, analytics |-> <<>>]
              ELSE [status |-> 200, query |-> q, queried |-> TRUE,
                    period_hours |-> hoursBack,
                    analytics |-> WeatherModel_getAnalytics(hoursBack)]
        /\ UNCHANGED <<client, trigger, weather, dispatched, proc, sockets, config, upstream, cities, io, cronJob, tasks, cycle, store, emitted, now, faults, origin>>

\* the same request when the query of the store rejects: the catch block
\* answers 500
AnalyticsQueryFails(q) ==
    LET hoursBack == HoursBack(parseInt(q))
    IN  /\ Alive
        /\ ~OutOfRange(hoursBack)
        /\ response' = [status |-> 500, query |-> q, queried |-> TRUE,
                        period_hours |-> 0, analytics |-> <<>>]
        /\ UNCHANGED <<client, trigger, weather, dispatched, proc, sockets, config, upstream, cities, io, cronJob, tasks, cycle, store, emitted, now, faults, origin>>

\* the values of the parameter hours the endpoint is asked with
Queries ==
    { Absent, <<"0">>, <<"1">>, <<"2">>, <<"2", "4">>, <<"1", "6", "8">>,
      <<"1", "6", "9">>, <<"2", "0", "0">>, <<"-", "5">>, <<"a", "b", "c">>,
      <<"1", "2", "h">>, <<"1", ".", "5">>, <<" ", "0", "4", "8">> }

\* how long before now the rows of the store were recorded
Ages ==
    { 0, HourMs, 2 * HourMs, 167 * HourMs, 168 * HourMs, 169 * HourMs }

\* what the readings of the store are of
StoredCities == <<"London", "Tokyo", "Dubai", "London", "London">>
StoredTemperatures == <<120, 250, 300, 180, 95>>
StoredHumidities == <<640, 700, 400, 660, 670>>

\* the clock when the requests are made
RequestTime == 200 * HourMs

InitAnalytics ==
    /\ config = [apiUrl |-> "open-meteo", apiKey |-> FALSE]
    /\ cities = <<"London", "Tokyo", "Dubai">>
    /\ upstream = Upstream
    /\ proc = "running"
    /\ io = TRUE
    /\ cronJob = 1
    /\ tasks = {1}
    /\ now = RequestTime
    /\ cycle = <<>>
    /\ \E age \in [1..Len(StoredCities) -> Ages] :
          /\ \A n \in 1..(Len(StoredCities) - 1) : age[n] >= age[n + 1]
          /\ store = [n \in 1..Len(StoredCities) |->
                        Row(Reading([city |-> StoredCities[n],
                                     temperature |-> StoredTemperatures[n],
                                     humidity |-> StoredHumidities[n]],
                                    RequestTime - age[n]), n)]
    /\ origin = [n \in 1..Len(StoredCities) |-> [cycle |-> 0, k |-> n]]
    /\ emitted = <<>>
    /\ faults = 0
    /\ sockets = <<>>
    /\ response = NoResponse
    /\ weather = initialState
    /\ dispatched = NothingDispatched
    /\ client = NoDashboard
    /\ trigger = Unobserved

NextAnalytics ==
    \/ \E q \in Queries : WeatherController_getAnalytics(q)
    \/ \E q \in Queries : AnalyticsQueryFails(q)

SpecAnalytics == InitAnalytics /\ [][NextAnalytics]_vars

(***************************************************************************)
(* The dashboard: the weather slice of the Redux store of a browser.  The   *)
(* socket handlers of the Dashboard dispatch addLiveReading and             *)
(* setConnected, logging out dispatches clearLiveReadings, and the          *)
(* fetchAnalytics thunk dispatches pending when it begins and fulfilled or  *)
(* rejected when the request of getAnalytics has settled.  Several thunks   *)
(* may be in flight.                                                        *)
(***************************************************************************)
\* the most calls of addLiveReading between two calls of clearLiveReadings
MaxAdds == 150

\* the most fetchAnalytics thunks in flight
MaxThunks == 2

\* the length liveReadings is cut to
MaxLive == 100

\* array.slice(0, n)
Slice(array, n) == SubSeq(array, 1, IF Len(array) < n THEN Len(array) ELSE n)

\* faulty variant: the cut is off by one
addLiveReadingOneMore(state, payload) ==
    [state EXCEPT !.liveReadings = Slice(<<payload>> \o @, MaxLive + 1)]

addLiveReading(state, payload) ==
    [state EXCEPT !.liveReadings = Slice(<<payload>> \o @, MaxLive)]

\* faulty variant: a disconnect also empties the list of live readings
setConnectedOrReset(state, payload) ==
    [state EXCEPT !.connected = payload,
                  !.liveReadings = IF payload THEN @ ELSE <<>>]

setConnected(state, payload) == [state EXCEPT !.connected = payload]

clearError(state) == [state EXCEPT !.error = NoError]

clearLiveReadings(state) == [state EXCEPT !.liveReadings = <<>>]

\* the case reducer of fetchAnalytics.pending
pending(state) == [state EXCEPT !.loading = TRUE, !.error = NoError]

\* the case reducer of fetchAnalytics.fulfilled
fulfilled(state, payload) == [state EXCEPT !.loading = FALSE, !.analytics = payload]

\* faulty variant: a failed request also empties the analytics
rejectedAndEmptied(state, payload) ==
    [state EXCEPT !.loading = FALSE, !.error = payload, !.analytics = <<>>]

\* the case reducer of fetchAnalytics.rejected
rejected(state, payload) == [state EXCEPT !.loading = FALSE, !.error = payload]

\* the value the thunk rejects with for an error of getAnalytics:
\* error.response?.data?.error || 'Failed to fetch analytics'
RejectValue(error) ==
    IF error.response /\ error.error # ""
    THEN error.error
    ELSE "Failed to fetch analytics"

\* the 'weather:update' events the socket delivers: the n-th reading
\* published since the list was last cleared
LiveReading(n) ==
    Payload([city_name |-> "London", temperature_c |-> 150, humidity_percent |-> 70,
             recorded_at |-> 0], n)

\* what getAnalytics may resolve with
AnalyticsPayloads ==
    { <<[city_name |-> "London", min_temperature |-> 100, max_temperature |-> 200,
         avg_humidity |-> 700]>>,
      <<[city_name |-> "Dubai", min_temperature |-> 280, max_temperature |-> 350,
         avg_humidity |-> 450],
        [city_name |-> "London", min_temperature |-> 100, max_temperature |-> 200,
         avg_humidity |-> 700]>> }

\* what getAnalytics may reject with: a response with an error message, a
\* response without one, no response at all
ServiceErrors ==
    { [response |-> TRUE, error |-> "Hours parameter must be between 1 and 168 (7 days)"],
      [response |-> TRUE, error |-> ""],
      [response |-> FALSE, error |-> ""] }

\* the handler of 'weather:update' dispatches addLiveReading
onWeatherUpdate ==
    /\ Len(dispatched.adds) < MaxAdds
    /\ LET reading == LiveReading(Len(dispatched.adds))
       IN  /\ weather' = addLiveReading(weather, reading)
           /\ dispatched' = [dispatched EXCEPT
                                !.adds = Append(@, reading),
                                !.last = Action("addLiveReading", FALSE, "", <<>>)]
    /\ UNCHANGED <<client, trigger, proc, sockets, response, config, upstream, cities, io, cronJob, tasks, cycle, store, emitted, now, faults, origin>>

\* the handlers of 'connect' and 'disconnect' dispatch setConnected
onConnection(flag) ==
    /\ weather' = setConnected(weather, flag)
    /\ dispatched' = [dispatched EXCEPT !.last = Action("setConnected", flag, "", <<>>)]
    /\ UNCHANGED <<client, trigger, proc, sockets, response, config, upstream, cities, io, cronJob, tasks, cycle, store, emitted, now, faults, origin>>

\* clearError is dispatched
dismissError ==
    /\ weather' = clearError(weather)
    /\ dispatched' = [dispatched EXCEPT !.last = Action("clearError", FALSE, "", <<>>)]
    /\ UNCHANGED <<client, trigger, proc, sockets, response, config, upstream, cities, io, cronJob, tasks, cycle, store, emitted, now, faults, origin>>

\* logging out dispatches clearLiveReadings
handleLogout ==
    /\ weather' = clearLiveReadings(weather)
    /\ dispatched' = [dispatched EXCEPT
                         !.adds = <<>>,
                         !.last = Action("clearLiveReadings", FALSE, "", <<>>)]
    /\ UNCHANGED <<client, trigger, proc, sockets, response, config, upstream, cities, io, cronJob, tasks, cycle, store, emitted, now, faults, origin>>

\* dispatch(fetchAnalytics(24)): the thunk dispatches pending and calls
\* getAnalytics
fetchAnalytics ==
    /\ dispatched.inflight < MaxThunks
    /\ weather' = pending(weather)
    /\ dispatched' = [dispatched EXCEPT
                         !.inflight = @ + 1,
                         !.last = Action("pending", FALSE, "", <<>>)]
    /\ UNCHANGED <<client, trigger, proc, sockets, response, config, upstream, cities, io, cronJob, tasks, cycle, store, emitted, now, faults, origin>>

\* getAnalytics resolved: the thunk dispatches fulfilled
getAnalyticsResolves(payload) ==
    /\ dispatched.inflight > 0
    /\ weather' = fulfilled(weather, payload)
    /\ dispatched' = [dispatched EXCEPT
                         !.inflight = @ - 1,
                         !.last = Action("fulfilled", FALSE, "", payload)]
    /\ UNCHANGED <<client, trigger, proc, sockets, response, config, upstream, cities, io, cronJob, tasks, cycle, store, emitted, now, faults, origin>>

\* getAnalytics rejected: the thunk dispatches rejected with rejectWithValue
getAnalyticsRejects(error) ==
    /\ dispatched.inflight > 0
    /\ weather' = rejected(weather, RejectValue(error))
    /\ dispatched' = [dispatched EXCEPT
                         !.inflight = @ - 1,
                         !.last = Action("rejected", FALSE, RejectValue(error), <<>>)]
    /\ UNCHANGED <<client, trigger, proc, sockets, response, config, upstream, cities, io, cronJob, tasks, cycle, store, emitted, now, faults, origin>>

InitSlice ==
    /\ config = [apiUrl |-> "open-meteo", apiKey |-> FALSE]
    /\ cities = <<"London", "Dubai">>
    /\ upstream = Upstream
    /\ io = TRUE
    /\ cronJob = 0
    /\ tasks = {}
    /\ cycle = <<>>
    /\ store = <<>>
    /\ emitted = <<>>
    /\ now = 0
    /\ faults = 0
    /\ origin = <<>>
    /\ proc = "running"
    /\ sockets = <<>>
    /\ response = NoResponse
    /\ weather = initialState
    /\ dispatched = NothingDispatched
    /\ client = NoDashboard
    /\ trigger = Unobserved

NextSlice ==
    \/ onWeatherUpdate
    \/ \E flag \in BOOLEAN : onConnection(flag)
    \/ dismissError
    \/ handleLogout
    \/ fetchAnalytics
    \/ \E payload \in AnalyticsPayloads : getAnalyticsResolves(payload)
    \/ \E error \in ServiceErrors : getAnalyticsRejects(error)

SpecSlice == InitSlice /\ [][NextSlice]_vars

(***************************************************************************)
(* The Dashboard component and the SocketService of the browser.  The mount *)
(* effect dispatches fetchAnalytics and registers its handlers through      *)
(* socketService; its cleanup removes the 'weather:update' handler and      *)
(* disconnects.  The server publishes 'weather:update' events, and a socket *)
(* emits 'connect' and 'disconnect' as the server comes and goes.           *)
(***************************************************************************)
\* the most 'weather:update' events the server publishes while the
\* Dashboard is mounted
MaxEvents == 3

\* SocketService.connect(): creates the socket unless there is one
SocketService_connect(socket) == IF socket = "null" THEN "socket" ELSE socket

\* SocketService.onConnect, onDisconnect, onWeatherUpdate: the callback is
\* registered if there is a socket, and else the call does nothing
SocketService_on(browser, event) ==
    IF browser.socket # "null"
    THEN [browser EXCEPT !.handlers = @ \cup {event}]
    ELSE browser

\* SocketService.offWeatherUpdate()
SocketService_off(browser) ==
    IF browser.socket # "null"
    THEN [browser EXCEPT !.handlers = @ \ {"weather:update"}]
    ELSE browser

\* SocketService.disconnect(): the socket is closed and forgotten, and its
\* handlers with it
SocketService_disconnect(browser) ==
    IF browser.socket # "null"
    THEN [browser EXCEPT !.socket = "null", !.handlers = {}]
    ELSE browser

\* the socket emits this event to the handler registered for it, if there
\* is a socket and it has one
Handles(event) == client.socket # "null" /\ event \in client.handlers

\* the effect of the Dashboard when it is mounted
mount ==
    /\ ~client.mounted
    /\ dispatched.inflight < MaxThunks
    /\ weather' = pending(weather)
    /\ dispatched' = [dispatched EXCEPT
                         !.inflight = @ + 1,
                         !.last = Action("pending", FALSE, "", <<>>)]
    /\ client' = [SocketService_on(
                     SocketService_on(
                        SocketService_on(client, "connect"), "disconnect"),
                     "weather:update")
                  EXCEPT !.mounted = TRUE, !.published = 0]
    /\ UNCHANGED <<trigger, proc, sockets, response, config, upstream, cities, io, cronJob, tasks, cycle, store, emitted, now, faults, origin>>

\* the cleanup of the effect when the Dashboard is unmounted
unmount ==
    /\ client.mounted
    /\ client' = [SocketService_disconnect(SocketService_off(client))
                  EXCEPT !.mounted = FALSE]
    /\ UNCHANGED <<trigger, weather, dispatched, proc, sockets, response, config, upstream, cities, io, cronJob, tasks, cycle, store, emitted, now, faults, origin>>

\* the server comes within reach or goes out of reach: a socket emits
\* 'connect' or 'disconnect', and the handler dispatches setConnected
serverReachable(flag) ==
    /\ client.reachable # flag
    /\ client' = [client EXCEPT !.reachable = flag]
    /\ IF Handles(IF flag THEN "connect" ELSE "disconnect")
       THEN /\ weather' = setConnected(weather, flag)
            /\ dispatched' = [dispatched EXCEPT
                                 !.last = Action("setConnected", flag, "", <<>>)]
       ELSE UNCHANGED <<weather, dispatched>>
    /\ UNCHANGED <<trigger, proc, sockets, response, config, upstream, cities, io, cronJob, tasks, cycle, store, emitted, now, faults, origin>>

\* the server publishes a 'weather:update' event while the Dashboard is
\* mounted: a connected socket with a handler for it dispatches
\* addLiveReading
serverPublishes ==
    /\ client.mounted
    /\ client.reachable
    /\ client.published < MaxEvents
    /\ client' = [client EXCEPT !.published = @ + 1]
    /\ IF Handles("weather:update")
       THEN LET reading == LiveReading(Len(dispatched.adds))
            IN  /\ weather' = addLiveReading(weather, reading)
                /\ dispatched' = [dispatched EXCEPT
                                     !.adds = Append(@, reading),
                                     !.last = Action("addLiveReading", FALSE, "", <<>>)]
       ELSE UNCHANGED <<weather, dispatched>>
    /\ UNCHANGED <<trigger, proc, sockets, response, config, upstream, cities, io, cronJob, tasks, cycle, store, emitted, now, faults, origin>>

InitDashboard ==
    /\ InitSlice

NextDashboard ==
    \/ mount
    \/ unmount
    \/ \E flag \in BOOLEAN : serverReachable(flag)
    \/ serverPublishes
    \/ \E payload \in AnalyticsPayloads : getAnalyticsResolves(payload)
    \/ \E error \in ServiceErrors : getAnalyticsRejects(error)

SpecDashboard == InitDashboard /\ [][NextDashboard]_vars

(***************************************************************************)
(* The periodic trigger against the wall clock.  The constructor reads      *)
(* INGESTION_INTERVAL_MINUTES, start() schedules a node-cron task with the   *)
(* expression "*/N * * * *", and node-cron invokes the task's callback in    *)
(* every minute of the wall clock that the expression matches.  What the     *)
(* callback does is cronTick above; this part observes when it is invoked.   *)
(* Time is in minutes and start() runs at the top of an hour.                *)
(***************************************************************************)
\* the longest time the clock is observed
MaxMinutes == 120

\* minutes in an hour: the minute field of a cron expression is 0..59
HourMinutes == 60

\* the values of INGESTION_INTERVAL_MINUTES the service is run with
IntervalSettings ==
    { Absent, <<"5">>, <<"7">>, <<"1", "0">>, <<"1", "5">>, <<"4", "5">> }

\* parseInt(process.env.INGESTION_INTERVAL_MINUTES || '10')
IntervalMinutes(setting) ==
    parseInt(IF setting = Absent \/ setting = <<>> THEN <<"1", "0">> ELSE setting).value

\* whether the expression `*/${n} * * * *` matches the minute at time t: a
\* step of n in the minute field is every minute of the hour, counted from
\* 0, that n divides
CronMatches(n, t) == (t % HourMinutes) % n = 0

\* a minute of the wall clock begins and the expression does not match it
minutePasses ==
    /\ trigger.minute < MaxMinutes
    /\ ~CronMatches(trigger.intervalMinutes, trigger.minute + 1)
    /\ trigger' = [trigger EXCEPT !.minute = @ + 1]
    /\ UNCHANGED <<client, weather, dispatched, proc, sockets, response, config, upstream, cities, io, cronJob, tasks, cycle, store, emitted, now, faults, origin>>

\* a minute of the wall clock begins and the expression matches it: the
\* callback of the task is invoked
cronFires ==
    /\ trigger.minute < MaxMinutes
    /\ CronMatches(trigger.intervalMinutes, trigger.minute + 1)
    /\ trigger' = [trigger EXCEPT !.minute = @ + 1,
                                  !.fired = trigger.minute + 1,
                                  !.gap = IF trigger.firings = 0
                                          THEN 0
                                          ELSE trigger.minute + 1 - trigger.fired,
                                  !.firings = @ + 1]
    /\ UNCHANGED <<client, weather, dispatched, proc, sockets, response, config, upstream, cities, io, cronJob, tasks, cycle, store, emitted, now, faults, origin>>

InitInterval ==
    /\ config = [apiUrl |-> "open-meteo", apiKey |-> FALSE]
    /\ cities = <<"London", "Dubai">>
    /\ upstream = Upstream
    /\ io = TRUE
    /\ cronJob = 1
    /\ tasks = {1}
    /\ now = 0
    /\ cycle = <<ingestWeatherData(0)>>
    /\ store = <<>>
    /\ emitted = <<>>
    /\ faults = 0
    /\ origin = <<>>
    /\ proc = "running"
    /\ sockets = <<>>
    /\ response = NoResponse
    /\ weather = initialState
    /\ dispatched = NothingDispatched
    /\ client = NoDashboard
    /\ \E setting \in IntervalSettings :
          trigger = [Unobserved EXCEPT !.intervalMinutes = IntervalMinutes(setting)]

NextInterval ==
    \/ minutePasses
    \/ cronFires

SpecInterval == InitInterval /\ [][NextInterval]_vars

(***************************************************************************)
(* Vocabulary of the properties.                                            *)
(***************************************************************************)
\* milliseconds in one time unit of the retry policy
TimeUnit == 1000

\* cycle c is executing: it has begun and has not reached its end
Executing(c) == cycle[c].pc # "done"

\* the rows of the store that hold reading k of cycle c
RowsOf(c, k) == {n \in 1..Len(store) : origin[n] = [cycle |-> c, k |-> k]}

Persisted(c, k) == RowsOf(c, k) # {}

Broadcast(c, k) ==
    \E n \in RowsOf(c, k), m \in 1..Len(emitted) : emitted[m].id = store[n].id

\* the calls of fetchWeatherData of a cycle that returned a value
OkCalls(cy) == SelectSeq(cy.calls, LAMBDA call : call.ret.ok)

\* the data a sequence of calls returned, in order
RECURSIVE DataOf(_)
DataOf(calls) ==
    IF calls = <<>> THEN <<>> ELSE <<Head(calls).ret.data>> \o DataOf(Tail(calls))

\* fetchMultipleCities has returned in cycle c
Fetched(c) == cycle[c].pc \in {"insert", "done"}

\* the attempts of a cycle that returned a value: those of its settled
\* calls and of the call in progress
OkTries(cy) ==
    {t \in UNION {{cy.calls[n].tries[j] : j \in 1..Len(cy.calls[n].tries)} :
                     n \in 1..Len(cy.calls)} \cup
           {cy.tries[j] : j \in 1..Len(cy.tries)} : t.ok}

\* a percentage
Percent == 0..100

\* the cities the process tracks
Tracked == {cities[i] : i \in 1..Len(cities)}

\* the cycles whose HTTP request to the backend is in flight
InFlight == {c \in Cycles : cycle[c].pc = "request"}

\* cycle c is inside fetchMultipleCities
Fetching(c) == cycle[c].pc \in {"request", "sleep"}

\* the rows of the store that cycle c inserted
CycleRows(c) == {n \in 1..Len(store) : origin[n].cycle = c}

\* the payloads cycle c has published
CycleEmits(c) ==
    {m \in 1..Len(emitted) : \E n \in CycleRows(c) : emitted[m].id = store[n].id}


\* the payloads published since socket s connected, in the order of their
\* publication
LiveSince(s) ==
    SelectSeq(emitted, LAMBDA payload : payload.id > sockets[s].stored)

(***************************************************************************)
(* The scheduler and the cycle.                                             *)
(***************************************************************************)
\* C1: at most one ingestion cycle is executing at any time; stated for the
\* runs in which start() was called at most once, so that every further cycle
\* was begun by the periodic trigger.
C1_AtMostOneCycleExecuting ==
    cronJob <= 1 => Cardinality({c \in Cycles : Executing(c)}) <= 1

\* C2: when a cycle has ended, every reading it fetched other than the one
\* whose insert failed is in the store, and was broadcast if the sink was set
\* when the cycle began.
C2_CycleContinuesAfterFailedInsert ==
    \A c \in Cycles :
       cycle[c].pc = "done" =>
          \A k \in 1..Len(cycle[c].results) :
             k # cycle[c].failedAt =>
                /\ Persisted(c, k)
                /\ cycle[c].sink => Broadcast(c, k)

\* C3: once the insert of reading k of a cycle has failed, every earlier
\* reading of that cycle is in the store, and has been broadcast if the sink
\* was set when the cycle began.
C3_EarlierReadingsKept ==
    \A c \in Cycles :
       cycle[c].failedAt # 0 =>
          \A k \in 1..(cycle[c].failedAt - 1) :
             /\ Persisted(c, k)
             /\ cycle[c].sink => Broadcast(c, k)

C3_Witness ==
    \E c \in Cycles :
       /\ cycle[c].failedAt = 2
       /\ cycle[c].sink
       /\ Persisted(c, 1)
       /\ Broadcast(c, 1)

\* C4: every payload the ingestion loop has emitted is a row of the store,
\* with the id the store gave that row.
C4_EmittedWasInserted ==
    \A m \in 1..Len(emitted) :
       \E n \in 1..Len(store) :
          /\ store[n].id = emitted[m].id
          /\ store[n] = emitted[m]

\* two cycles have both emitted, and one inserted a row that was not emitted
C4_Witness ==
    /\ Len(emitted) >= 2
    /\ Len(store) > Len(emitted)
    /\ \E m1, m2 \in 1..Len(emitted) :
          \E n1, n2 \in 1..Len(store) :
             /\ store[n1] = emitted[m1]
             /\ store[n2] = emitted[m2]
             /\ origin[n1].cycle # origin[n2].cycle

\* C5: every row of the store holds the value one successful call of
\* fetchWeatherData returned in the row's cycle, no two rows come from the
\* same call, and a city whose call failed has no row and no broadcast in
\* that cycle.
C5_RowsComeFromSuccessfulFetches ==
    /\ \A n \in 1..Len(store) :
          LET cy == cycle[origin[n].cycle]
              ok == OkCalls(cy)
          IN  /\ origin[n].k \in 1..Len(ok)
              /\ store[n].city_name = ok[origin[n].k].ret.data.city
              /\ store[n].temperature_c = ok[origin[n].k].ret.data.temperature
              /\ store[n].humidity_percent = Round(ok[origin[n].k].ret.data.humidity)
    /\ \A n, m \in 1..Len(store) : origin[n] = origin[m] => n = m
    /\ \A n, m \in 1..Len(store) : store[n].id = store[m].id => n = m
    /\ \A c \in Cycles :
          /\ \A j \in 1..Len(cycle[c].calls) : cycle[c].calls[j].i = j
          /\ Cardinality({n \in 1..Len(store) : origin[n].cycle = c})
                <= Len(OkCalls(cycle[c]))
    /\ \A m \in 1..Len(emitted) :
          \E n \in 1..Len(store) : store[n].id = emitted[m].id

\* a cycle in which one city failed for good has stored and broadcast the
\* reading of another city
C5_Witness ==
    \E c \in Cycles :
       /\ \E j \in 1..Len(cycle[c].calls) : ~cycle[c].calls[j].ret.ok
       /\ Broadcast(c, 1)

(***************************************************************************)
(* The adapter.                                                             *)
(***************************************************************************)
\* the failed tries of a call
Failures(tries) == {j \in 1..Len(tries) : ~tries[j].ok}

RECURSIVE Total(_)
Total(waits) == IF waits = <<>> THEN 0 ELSE Head(waits) + Total(Tail(waits))

\* C6: when fetchMultipleCities has returned, fetchWeatherData was called
\* once for every city of the list, in list order, and the result is the
\* values of the calls that succeeded, in that order; the failed cities are
\* in the errors and nowhere else.
C6_PartialResultsInOrder ==
    \A c \in Cycles :
       Fetched(c) =>
          LET cy == cycle[c]
          IN  /\ Len(cy.calls) = Len(cities)
              /\ \A j \in 1..Len(cy.calls) : cy.calls[j].i = j
              /\ cy.results = DataOf(OkCalls(cy))
              /\ Len(cy.results) = Len(cities) - Len(cy.errors)
              /\ Len(cy.errors) =
                    Cardinality({j \in 1..Len(cy.calls) : ~cy.calls[j].ret.ok})

\* of three cities the first failed for good and the other two were fetched
C6_Witness ==
    \E c \in Cycles :
       /\ Fetched(c)
       /\ Len(cities) = 3
       /\ ~cycle[c].calls[1].ret.ok
       /\ Len(cycle[c].results) = 2
       /\ cycle[c].results[1].city = cities[2]
       /\ cycle[c].results[2].city = cities[3]

\* the tries of a call in progress or settled: never more than maxRetries,
\* and none after one that succeeded
TriesBounded(tries) ==
    /\ Len(tries) <= 3
    /\ \A j \in 1..(Len(tries) - 1) : ~tries[j].ok

\* C7: a call of fetchWeatherData makes at most 3 attempts, none after one
\* that succeeded, and a call that returns a value returns the value of its
\* last attempt, the first one to succeed.
C7_AtMostThreeAttempts ==
    \A c \in Cycles :
       /\ TriesBounded(cycle[c].tries)
       /\ cycle[c].attempt <= 3
       /\ \A j \in 1..Len(cycle[c].calls) :
             LET call == cycle[c].calls[j]
             IN  /\ TriesBounded(call.tries)
                 /\ call.tries # <<>>
                 /\ call.ret.ok <=> call.tries[Len(call.tries)].ok
                 /\ call.ret.ok => call.ret.data = call.tries[Len(call.tries)].data

\* two failures, then the third attempt's value is returned
C7_Witness ==
    \E c \in Cycles : \E j \in 1..Len(cycle[c].calls) :
       LET call == cycle[c].calls[j]
       IN  /\ Len(call.tries) = 3
           /\ ~call.tries[1].ok /\ ~call.tries[2].ok /\ call.tries[3].ok
           /\ call.ret.ok
           /\ call.ret.data = call.tries[3].data

\* the waits of a call in progress or settled
WaitsGrow(waits) ==
    /\ Len(waits) <= 2
    /\ \A k \in 1..Len(waits) : waits[k] = 5 * TimeUnit * k
    /\ Total(waits) <= 15 * TimeUnit

C9_TerminalErrorCarriesLastMessage ==
    \A c \in Cycles : \A j \in 1..Len(cycle[c].calls) :
       LET call == cycle[c].calls[j]
       IN  ~call.ret.ok <=>
              /\ Len(call.tries) = 3
              /\ Failures(call.tries) = {1, 2, 3}
              /\ call.ret.error = [city |-> cities[call.i],
                                   attempts |-> 3,
                                   message |-> call.tries[3].error]

\* a call failed for good and its first and last errors differ
C9_Witness ==
    \E c \in Cycles : \E j \in 1..Len(cycle[c].calls) :
       LET call == cycle[c].calls[j]
       IN  /\ ~call.ret.ok
           /\ call.tries[1].error # call.tries[3].error
           /\ call.ret.error.message = call.tries[3].error

\* the city a call is for has no entry in the coordinate table of Open-Meteo
Unsupported(i) == ~isOpenWeatherMap /\ cities[i] \notin cityCoordinates

\* C10: with Open-Meteo selected, a call for a city that is not in the
\* coordinate table makes exactly one attempt, never sleeps and sends no
\* HTTP request.
C10_UnsupportedCityFailsFast ==
    \A c \in Cycles :
       /\ (Executing(c) /\ cycle[c].pc # "insert" /\ Unsupported(cycle[c].i)) =>
             /\ cycle[c].pc # "sleep"
             /\ cycle[c].sent = 0
       /\ \A j \in 1..Len(cycle[c].calls) :
             LET call == cycle[c].calls[j]
             IN  Unsupported(call.i) =>
                    /\ Len(call.tries) = 1
                    /\ call.waits = <<>>
                    /\ call.sent = 0

\* the adapter was constructed for OpenWeatherMap without WEATHER_API_KEY
KeyMissing == isOpenWeatherMap /\ ~config.apiKey

KeyRequired == "WEATHER_API_KEY is required for OpenWeatherMap"

C12_AtMostOneArmedTrigger ==
    /\ Cardinality(tasks) <= 1
    /\ tasks \subseteq {cronJob}

\* the service is stopped: it was never started, or stop() was called after
\* the last start()
Stopped == cronJob \notin tasks

\* C13: a step of stop() that cancels a trigger leaves every cycle, the store
\* and the channel as they are, so a cycle in progress goes on; and while the
\* service is stopped no periodic trigger is armed, so none starts a cycle.
C13_StopCancelsTriggerOnly ==
    [][ /\ (Stopped' => tasks' = {})
        /\ (tasks' # tasks /\ tasks' \subseteq tasks) =>
              /\ cycle' = cycle
              /\ store' = store
              /\ emitted' = emitted ]_vars

\* C14: while the service is stopped (never started, or stopped since the
\* last start) a call of stop() throws nothing and leaves the armed triggers
\* as they are, and a second stop() right after any stop() changes nothing.
C14_StopIsIdempotent ==
    LET once == StopTask(cronJob, tasks)
        twice == StopTask(cronJob, once.tasks)
    IN  /\ ~once.threw
        /\ ~twice.threw
        /\ twice.tasks = once.tasks
        /\ Stopped => once.tasks = tasks

\* stop() has been called after start() and the service is stopped, and
\* a cycle is still in progress
C14_Witness ==
    /\ cronJob # 0
    /\ Stopped
    /\ \E c \in Cycles : Executing(c)

(***************************************************************************)
(* Shutdown.                                                                *)
(***************************************************************************)
\* C15: the pool of the store is destroyed, and the process exits, only when
\* no cycle is in flight, and no cycle calls WeatherModel.create on a pool
\* that has been destroyed.
C15_ShutdownWaitsForCycle ==
    /\ proc # "running" => \A c \in Cycles : ~Executing(c)
    /\ \A c \in Cycles : cycle[c].pc # "refused"

(***************************************************************************)
(* The channel.                                                             *)
(***************************************************************************)
Min(a, b) == IF a <= b THEN a ELSE b

\* the handler of socket s has sent its readings and nothing was published
\* between the connection and that moment
CaughtUpQuietly(s) ==
    /\ sockets[s].pc = "ready"
    /\ sockets[s].early = 0
    /\ sockets[s].read = sockets[s].stored

\* C16: a client that connected while the store held n rows, with no publish
\* until its handler had sent the readings, has received first the last
\* min(10, n) rows of the store in the order they were stored, and besides
\* them only what was published after it connected.
C16_CatchUpIsLastTenInOrder ==
    \A s \in Sockets :
       CaughtUpQuietly(s) =>
          LET n == sockets[s].stored
              m == Min(CatchUpLimit, n)
          IN  /\ Len(sockets[s].received) = m + (Len(store) - n)
              /\ SubSeq(sockets[s].received, 1, m) = SubSeq(store, n - m + 1, n)

\* C17: whatever the interleaving, a client receives nothing before the
\* readings its handler sends, no reading twice, the readings published
\* afterwards in the order of their ids, and every row stored after its
\* query ran.
C17_CatchUpThenLiveExactlyOnce ==
    \A s \in Sockets :
       LET got == sockets[s].received
       IN  /\ sockets[s].pc # "ready" => got = <<>>
           /\ sockets[s].pc = "ready" => sockets[s].early = 0
           /\ \A i, j \in 1..Len(got) : got[i].id = got[j].id => i = j
           /\ \A i, j \in (Len(sockets[s].batch) + 1)..Len(got) :
                 i < j => got[i].id < got[j].id
           /\ sockets[s].pc = "ready" =>
                 \A n \in (sockets[s].read + 1)..Len(store) :
                    \E i \in 1..Len(got) : got[i].id = store[n].id

(***************************************************************************)
(* Analytics.                                                               *)
(***************************************************************************)
\* the number the request asked for, when its parameter reads as one
Asked == parseInt(response.query)

\* C18: a request whose hours value is a number outside 1..168 is answered
\* with the validation failure and the store is not queried, and the store
\* is queried only for a value in 1..168 that is the one asked for or, when
\* none was given, the default.
C18_OutOfRangeRejectedBeforeQuery ==
    response.status # 0 =>
       /\ (~Asked.nan /\ (Asked.value < 1 \/ Asked.value > 168)) =>
              /\ response.status = 400
              /\ ~response.queried
       /\ (response.queried /\ response.status = 200) =>
              /\ response.period_hours \in 1..168
              /\ ~Asked.nan => response.period_hours = Asked.value

\* the age of row n of the store
AgeOf(n) == now - store[n].recorded_at

\* the rows of a city that are at most h hours old
WindowOf(city, h) ==
    {n \in 1..Len(store) : store[n].city_name = city /\ AgeOf(n) <= h * HourMs}

\* the sum of the humidities of the rows of a city at the positions from n
\* on that are at most h hours old
RECURSIVE HumidityFrom(_, _, _)
HumidityFrom(n, city, h) ==
    IF n > Len(store)
    THEN 0
    ELSE (IF n \in WindowOf(city, h) THEN store[n].humidity_percent ELSE 0)
            + HumidityFrom(n + 1, city, h)

Before(a, b) ==
    \E i, j \in 1..Len(CityOrder) : i < j /\ CityOrder[i] = a /\ CityOrder[j] = b

C21_HumidityIsAPercentage ==
    /\ \A c \in Cycles : \A t \in OkTries(cycle[c]) : Round(t.data.humidity) \in Percent
    /\ \A n \in 1..Len(store) : store[n].humidity_percent \in Percent

\* C22: with Open-Meteo the humidity fetchWeatherData returns is the first
\* element of the hourly humidity series whenever the series is not empty,
\* a first element of 0 included, and the default only when it is empty.
C22_HumidityIsFirstOfSeries ==
    ~isOpenWeatherMap =>
       \A c \in Cycles : \A t \in OkTries(cycle[c]) :
          t.data.humidity = IF t.body.relativehumidity_2m # <<>>
                            THEN t.body.relativehumidity_2m[1]
                            ELSE DefaultHumidity

\* C23: the city of every stored reading and of every published reading is
\* a name that is not empty and is one of the tracked cities, for both
\* backends and whatever name the upstream response carries.
C23_CityIsTracked ==
    /\ \A n \in 1..Len(store) :
          store[n].city_name # "" /\ store[n].city_name \in Tracked
    /\ \A m \in 1..Len(emitted) :
          emitted[m].city_name # "" /\ emitted[m].city_name \in Tracked

(***************************************************************************)
(* The order of the fetches.                                                *)
(***************************************************************************)
\* C24: at most one request to the backend is in flight at any time, and
\* the call for a city begins only when the calls for all cities before it
\* in the list have settled; stated for the runs in which start() was called
\* at most once.
C24_FetchesAreSequential ==
    cronJob <= 1 =>
       /\ Cardinality(InFlight) <= 1
       /\ \A c \in Cycles :
             /\ \A n \in 1..Len(cycle[c].calls) :
                   /\ cycle[c].calls[n].i = n
                   /\ cycle[c].calls[n].tries # <<>>
             /\ Fetching(c) => cycle[c].i = Len(cycle[c].calls) + 1

(***************************************************************************)
(* The cycle without a sink and with failed fetches.                        *)
(***************************************************************************)
\* C25: while no sink has ever been set, a cycle that has ended has every
\* reading it fetched in the store (other than one whose own insert was
\* rejected), nothing has been published, and the cycle ended in an error
\* only if an insert was rejected.
C25_NoSinkStillInserts ==
    ~io =>
       /\ emitted = <<>>
       /\ \A c \in Cycles :
             cycle[c].pc = "done" =>
                /\ \A k \in 1..Len(cycle[c].results) :
                      k # cycle[c].failedAt => Persisted(c, k)
                /\ cycle[c].outcome = "error" => cycle[c].failedAt # 0

\* C26: when a cycle in which no insert was rejected has ended, it has
\* completed, the readings of the cities whose fetch returned a value are in
\* the store, one row each and in the order of the list, and were published
\* if the sink was set when the cycle began, whichever other cities failed
\* all their attempts; the cycle has no row for a city that failed.
C26_FailedFetchDoesNotAbortCycle ==
    \A c \in Cycles :
       cycle[c].pc = "done" /\ cycle[c].failedAt = 0 =>
          LET ok == OkCalls(cycle[c])
          IN  /\ cycle[c].outcome = "completed"
              /\ Len(cycle[c].calls) = Len(cities)
              /\ \A k \in 1..Len(ok) :
                    /\ Persisted(c, k)
                    /\ \A n \in RowsOf(c, k) :
                          store[n].city_name = ok[k].ret.data.city
                    /\ cycle[c].sink => Broadcast(c, k)
              /\ Cardinality({n \in 1..Len(store) : origin[n].cycle = c}) = Len(ok)

\* a cycle with a sink has ended without a rejected insert: London failed
\* its three attempts, and the reading of Dubai is the one row in the store
\* and was published
C26_Witness ==
    \E c \in Cycles :
       /\ cycle[c].pc = "done" /\ cycle[c].failedAt = 0 /\ cycle[c].sink
       /\ Len(cycle[c].calls) = 2
       /\ ~cycle[c].calls[1].ret.ok
       /\ Len(cycle[c].calls[1].tries) = maxRetries
       /\ cycle[c].calls[2].ret.ok
       /\ Len(store) = 1 /\ store[1].city_name = "Dubai"
       /\ Broadcast(c, 1)

(***************************************************************************)
(* The weather slice.                                                       *)
(***************************************************************************)
\* C27: liveReadings holds the payloads of the most recent min(n, 100) of
\* the n calls of addLiveReading, the newest first: it is never longer than
\* 100 and the oldest payloads are the ones that were dropped.
C27_LiveReadingsAreNewestHundred ==
    LET n == Len(dispatched.adds)
        live == weather.liveReadings
    IN  /\ Len(live) <= MaxLive
        /\ Len(live) = Min(n, MaxLive)
        /\ \A j \in 1..Len(live) : live[j] = dispatched.adds[n - j + 1]

\* after 150 readings with ids 0 to 149 the list runs from id 149 down to
\* id 50
C27_Witness ==
    /\ Len(dispatched.adds) = 150
    /\ \A j \in 1..150 : dispatched.adds[j].id = j - 1
    /\ Len(weather.liveReadings) = 100
    /\ weather.liveReadings[1].id = 149
    /\ weather.liveReadings[100].id = 50

\* C28: loading is false at first; pending sets loading and clears error;
\* fulfilled clears loading and replaces analytics with its payload;
\* rejected clears loading, sets error to its payload and leaves analytics
\* as it was; and no other action changes loading, so that loading is true
\* only from a pending to the next fulfilled or rejected.
C28_AnalyticsLifecycle ==
    /\ ~weather.loading
    /\ [][LET a == dispatched'.last
          IN  /\ a.type = "pending" =>
                    weather'.loading /\ weather'.error = NoError
              /\ a.type = "fulfilled" =>
                    ~weather'.loading /\ weather'.analytics = a.list
              /\ a.type = "rejected" =>
                    /\ ~weather'.loading
                    /\ weather'.error = a.text
                    /\ weather'.analytics = weather.analytics
              /\ a.type \notin {"pending", "fulfilled", "rejected"} =>
                    weather'.loading = weather.loading]_vars

\* a request was rejected without a response after an earlier one had been
\* answered: the error is the default message and the analytics are kept
C28_Witness ==
    /\ dispatched.last.type = "rejected"
    /\ dispatched.inflight = 0
    /\ ~weather.loading
    /\ weather.error = "Failed to fetch analytics"
    /\ Len(weather.analytics) = 2

\* C29: addLiveReading leaves loading, error, analytics and connected as
\* they were; setConnected, clearError and the pending, fulfilled and
\* rejected actions of fetchAnalytics leave liveReadings as it was;
\* clearLiveReadings changes liveReadings only.
C29_ActionsKeepOtherFields ==
    [][LET a == dispatched'.last
           Others(state) == <<state.loading, state.error, state.analytics,
                              state.connected>>
       IN  /\ a.type = "addLiveReading" => Others(weather') = Others(weather)
           /\ a.type \in {"setConnected", "clearError", "pending", "fulfilled",
                          "rejected"} =>
                 weather'.liveReadings = weather.liveReadings
           /\ a.type = "clearLiveReadings" => Others(weather') = Others(weather)]_vars

\* the live readings are still there after a rejected request and a
\* disconnect
C29_Witness ==
    /\ dispatched.last = Action("setConnected", FALSE, "", <<>>)
    /\ ~weather.connected
    /\ weather.error # NoError
    /\ Len(weather.liveReadings) = 3

(***************************************************************************)
(* The first cycle.                                                         *)
(***************************************************************************)
\* C30: start() begins one cycle at once and arms the periodic trigger in
\* the same call; no trigger is armed, and so none fires, before the first
\* cycle has begun; and an armed trigger is disarmed by stop() alone, not by
\* the first cycle succeeding, failing or still running, so that it goes on
\* beginning cycles until stop().
C30_StartRunsCycleThenArms ==
    /\ tasks = {} /\ cycle = <<>>
    /\ [](tasks # {} => cycle # <<>>)
    /\ [][/\ cronJob' # cronJob =>
                /\ Len(cycle') = Len(cycle) + 1
                /\ cronJob' \in tasks'
          /\ Len(cycle') > Len(cycle) /\ cronJob' = cronJob =>
                tasks # {} /\ cycle # <<>> /\ tasks' = tasks
          /\ cycle' # cycle /\ Len(cycle') = Len(cycle) => tasks' = tasks
          /\ ~(tasks \subseteq tasks') =>
                cycle' = cycle /\ cronJob' = cronJob]_vars

\* the first cycle has ended in an error, the task of the one call of
\* start() is still armed, and a tick has begun a second cycle
C30_Witness ==
    /\ cronJob = 1 /\ cronJob \in tasks
    /\ Len(cycle) = 2
    /\ cycle[1].pc = "done" /\ cycle[1].outcome = "error"
    /\ Executing(2)

(***************************************************************************)
(* The sink.                                                                *)
(***************************************************************************)
\* C31: a sink that is set only after start() is rejected or ignored: when
\* the first cycle, which start() begins, began without a sink, nothing is
\* ever published.
C31_LateSinkIsIgnored ==
    cycle # <<>> /\ ~cycle[1].sink => emitted = <<>>

C33_CycleFollowsListOrder ==
    /\ [](\A c \in Cycles :
             LET ok == OkCalls(cycle[c])
             IN  /\ \A k1, k2 \in 1..Len(ok) : k1 < k2 => ok[k1].i < ok[k2].i
                 /\ \A k \in 1..Len(ok) : \A n \in RowsOf(c, k) :
                       store[n].city_name = ok[k].ret.data.city)
    /\ [][\A c \in Cycles : \A k1 \in 1..Len(cities) :
             \/ Persisted(c, k1)' /\ ~Persisted(c, k1)
             \/ Broadcast(c, k1)' /\ ~Broadcast(c, k1)
             => \A k2 \in (k1 + 1)..Len(cities) : ~Persisted(c, k2)']_vars

\* London and Dubai of one cycle are in the store and were published, in
\* that order
C33_Witness ==
    /\ Len(store) = 2 /\ Len(emitted) = 2
    /\ origin[1] = [cycle |-> 1, k |-> 1] /\ origin[2] = [cycle |-> 1, k |-> 2]
    /\ store[1].city_name = "London" /\ store[2].city_name = "Dubai"
    /\ emitted[1].city_name = "London" /\ emitted[2].city_name = "Dubai"

\* C34: a cycle inserts at most one reading and publishes at most one
\* payload for each entry of the city list, however many attempts the fetch
\* of that city made: it inserts at most as many rows as there are cities
\* and publishes no more payloads than it has inserted rows.
C34_NoDuplicateWork ==
    \A c \in Cycles :
       LET ok == OkCalls(cycle[c])
       IN  /\ \A k1, k2 \in 1..Len(ok) : ok[k1].i = ok[k2].i => k1 = k2
           /\ \A n \in CycleRows(c) : origin[n].k \in 1..Len(ok)
           /\ \A n1, n2 \in CycleRows(c) : origin[n1].k = origin[n2].k => n1 = n2
           /\ \A m1, m2 \in CycleEmits(c) : emitted[m1].id = emitted[m2].id => m1 = m2
           /\ Cardinality(CycleRows(c)) <= Len(cities)
           /\ Cardinality(CycleEmits(c)) <= Cardinality(CycleRows(c))

\* London was fetched at its third attempt and Dubai at its second, and the
\* cycle has inserted and published one reading for each
C34_Witness ==
    \E c \in Cycles :
       /\ cycle[c].pc = "done"
       /\ Len(cycle[c].calls) = 2
       /\ cycle[c].calls[1].ret.ok /\ Len(cycle[c].calls[1].tries) = 3
       /\ cycle[c].calls[2].ret.ok /\ Len(cycle[c].calls[2].tries) = 2
       /\ Cardinality(CycleRows(c)) = 2
       /\ Cardinality(CycleEmits(c)) = 2

(***************************************************************************)
(* The interval.                                                            *)
(***************************************************************************)
\* C35: for every configured interval, the time between two consecutive
\* firings of the periodic trigger is intervalMinutes minutes.
C35_FiresAtConfiguredInterval ==
    trigger.firings >= 2 => trigger.gap = trigger.intervalMinutes

(***************************************************************************)
(* The Dashboard.                                                           *)
(***************************************************************************)
\* C36: while the Dashboard is mounted, its handlers for 'connect',
\* 'disconnect' and 'weather:update' are attached to a socket, every
\* 'weather:update' event the server has published since it was mounted was
\* dispatched as one addLiveReading, and connected tells whether the server
\* is within reach.
C36_DashboardHandlersAreLive ==
    client.mounted =>
       /\ client.socket # "null"
       /\ client.handlers = {"connect", "disconnect", "weather:update"}
       /\ Len(dispatched.adds) >= client.published

\* C37: the payloads the ingestion loop has emitted are in the order of the
\* ids the store gave their rows, whichever way the cycles and the answers
\* of the store interleave.
C37_EmittedInIdOrder ==
    \A m1, m2 \in 1..Len(emitted) : m1 < m2 => emitted[m1].id < emitted[m2].id

\* C38: no call of ingestWeatherData rejects: a cycle is running, or it has
\* ended as completed or with its error caught and logged, whatever request,
\* insert or emit failed; the process goes on, and while a task is armed a
\* tick can begin a cycle after a cycle has failed.
C38_CycleNeverRejects ==
    /\ \A c \in Cycles :
          /\ cycle[c].outcome \in {"running", "completed", "error"}
          /\ cycle[c].outcome # "running" <=> cycle[c].pc = "done"
    /\ proc = "running"
    /\ (\E c \in Cycles : cycle[c].outcome = "error")
          /\ tasks # {} /\ Len(cycle) < MaxCycles => ENABLED cronTick

\* an insert of the first cycle was rejected or its emit threw, and a second
\* cycle has run to its end
C38_Witness ==
    /\ Len(cycle) >= 2
    /\ cycle[1].outcome = "error"
    /\ cycle[1].failedAt # 0
    /\ cycle[2].outcome = "completed"

\* C39: a catch-up query that fails touches nothing but that catch-up: the
\* socket whose query was rejected has received exactly the payloads
\* published since it connected, every other socket has received them too
\* (around the stored readings its own handler sent it), and the cycle of
\* the ingestion loop never ends in an error and the process keeps running.
C39_CatchUpFailureIsIsolated ==
    /\ \A s \in Sockets :
          LET live == LiveSince(s)
              early == sockets[s].early
          IN  IF sockets[s].pc = "ready"
              THEN sockets[s].received =
                      SubSeq(live, 1, early) \o Reverse(sockets[s].batch)
                         \o SubSeq(live, early + 1, Len(live))
              ELSE sockets[s].received = live
    /\ \A c \in Cycles : cycle[c].outcome # "error"
    /\ proc = "running"

\* the query of one socket was rejected and that socket has received two
\* live payloads since; another socket was sent stored readings by its
\* handler; the cycle has completed
C39_Witness ==
    /\ \E s \in Sockets :
          /\ sockets[s].pc = "caught"
          /\ Len(sockets[s].received) = 2
    /\ \E s \in Sockets :
          /\ sockets[s].pc = "ready"
          /\ sockets[s].batch # <<>>
    /\ \A c \in Cycles : cycle[c].outcome = "completed"

====
